---- MODULE Spec2Model ----
(***************************************************************************)
(* Per-session agent runtime of vibesdk: the conversation store, the       *)
(* control-message handler, the cancellation controller, the workflow      *)
(* generation and the deep-debug track, as state machines taken from       *)
(* worker/agents/core.                                                     *)
(*                                                                         *)
(* Three specifications range over the same variables: SpecConv (the       *)
(* conversation store), Spec (generation, cancellation and deep debug) and *)
(* SpecFrames (the control-frame handler with the promises it starts);     *)
(* what a specification does not move rests in its initial state.          *)
(***************************************************************************)
EXTENDS Integers, Sequences, FiniteSets, Bags, TLC

VARIABLES
    \* ---- conversation store (BaseProjectAgent, SQL tables) ----
    conversationMessages,   \* this.state.conversationMessages (in-memory compact log)
    full_conversations,     \* row 'default' of table full_conversations, or NoRow
    compact_conversations,  \* row 'default' of table compact_conversations, or NoRow
    convReply,              \* last conversation_state event sent by the handler
    convHist,               \* what the last conversation operation was and saw
    \* ---- session: generation, cancellation, deep debug, handler ----
    projectType,            \* "app" or "workflow" (state.projectType, fixed at creation)
    shouldBeGenerating,     \* state.shouldBeGenerating
    generationPromise,      \* this.generationPromise: 0 (null) or the generation it tracks
    gens,                   \* the generations in flight, by slot
    currentAbortController, \* this.currentAbortController: 0 (undefined) or a controller
    controllersCreated,     \* how many AbortControllers were constructed
    abortedSignals,         \* the controllers whose signal is aborted
    workflowMetadata,       \* state.workflowMetadata is set
    deepDebugPromise,       \* this.deepDebugPromise is set (not null)
    debugRuns,              \* the deep-debug runs in flight (a bag)
    pendingOps,             \* controller promises started by the handler, not settled
    deployment,             \* state.deploymentStatus and state.deploymentError
    \* ---- sandbox deploys and the process hosting the sessions ----
    sandboxDeploying,       \* the sandbox deploys executing, by the call that started each
    deployQueue,            \* the deployToSandbox calls waiting for the sandbox
    prototypeInitialState,  \* ProjectAgent.prototype.initialState (whose INITIAL_STATE)
    agents,                 \* the ProjectAgent instances of the process, by session
    build,                  \* what the build and the Agent base class leave open
    \* ---- files and version control, by session ----
    repos,                  \* generatedFilesMap and the commits of each session's store
    \* ---- workflow metadata and the files generated from it ----
    workflow,               \* state.workflowMetadata, the calls that made it, the files
    \* ---- plugin manager ----
    plugins,                \* PluginManager.plugins in insertion order, and the last call
    \* ---- tool dispatch, project names, connections ----
    toolCall,               \* the last executeToolWithDefinition call and how it went
    names,                  \* state.projectName of each session, the last rename
    channels,               \* the WebSockets of the session and what each received
    \* ---- the sandbox of a session ----
    sandboxState,           \* sandboxInstanceId, commandsHistory, lastPackageJson, last call
    templateState,          \* projectName, src/index.ts, metadata, templateDetailsCache, last result
    registering,            \* the names of the plugins whose onRegister has not settled
    exported,               \* what the last exportGitObjects call returned
    sent,                   \* the events emitted by the last step
    lastStep,               \* what the last step was
    stopAcked               \* generation_stopped sent, no generate_all / resume since

convVars == <<conversationMessages, full_conversations, compact_conversations,
              convReply, convHist>>

hostVars == <<sandboxDeploying, deployQueue, prototypeInitialState, agents, build>>

sessionVars == <<projectType, shouldBeGenerating, generationPromise, gens,
                 currentAbortController, controllersCreated, abortedSignals,
                 workflowMetadata, deepDebugPromise, debugRuns, pendingOps,
                 deployment, sandboxDeploying, deployQueue, prototypeInitialState,
                 agents, build, sent, lastStep, stopAcked>>

\* The variables of the components modelled apart from the session's control.
lateVars == <<sandboxState, templateState, registering, exported>>
extVars == <<repos, workflow, plugins, toolCall, names, channels, lateVars>>

vars == <<conversationMessages, full_conversations, compact_conversations,
          convReply, convHist,
          projectType, shouldBeGenerating, generationPromise, gens,
          currentAbortController, controllersCreated, abortedSignals,
          workflowMetadata, deepDebugPromise, debugRuns, pendingOps,
          deployment, sandboxDeploying, deployQueue, prototypeInitialState,
          agents, build, sent, lastStep, stopAcked, extVars>>

\* The conversation store and the session's control, at rest elsewhere.
coreVars == <<convVars, sessionVars>>

\* What the steps on files and version control leave alone.
notRepos == <<coreVars, workflow, plugins, toolCall, names, channels, lateVars>>

\* What initialize and cloneAgent, which set a whole state, leave alone.
notStates == <<coreVars, workflow, plugins, toolCall, channels, lateVars>>

\* What the steps on the workflow metadata leave alone.
notWorkflow == <<coreVars, repos, plugins, toolCall, names, channels, lateVars>>

\* What the calls of the plugin manager leave alone.
notPlugins == <<coreVars, repos, workflow, toolCall, names, channels, lateVars>>

\* What a tool call leaves alone, but for the metadata its tool may store.
notTools == <<coreVars, repos, plugins, names, channels, lateVars>>

\* What a rename leaves alone.
notNames == <<coreVars, repos, workflow, plugins, toolCall, channels, lateVars>>

\* What the calls to the sandbox leave alone.
notSandbox == <<coreVars, repos, workflow, plugins, toolCall, names, channels,
               templateState, registering, exported>>

\* What the calls that read or outdate the scaffold cache leave alone.
notTemplate == <<coreVars, repos, workflow, plugins, toolCall, names, channels,
                sandboxState, registering, exported>>

\* What a step of a registration leaves alone.
notRegistration == <<coreVars, repos, workflow, toolCall, names, channels,
                    sandboxState, templateState, exported>>

\* What an export of the git objects leaves alone.
notExport == <<coreVars, workflow, plugins, toolCall, names, channels,
              sandboxState, templateState, registering>>

\* What a broadcast leaves alone.
notChannels == <<coreVars, repos, workflow, plugins, toolCall, names, lateVars>>

\* Everything of the session but the events of the last step.
sessionState == <<projectType, shouldBeGenerating, generationPromise, gens,
                  currentAbortController, controllersCreated, abortedSignals,
                  workflowMetadata, deepDebugPromise, debugRuns, pendingOps,
                  deployment>>

None == "none"

----------------------------------------------------------------------------
(* Bounds *)

MaxConvIds == 2      \* distinct conversationIds
MaxGens == 2         \* generations the model lets be in flight at once
MaxControllers == 2  \* AbortControllers constructed in one run of the session
MaxDebugRuns == 2    \* deep-debug runs the model lets be in flight at once
MaxPendingOps == 1   \* controller promises of the handler pending at once
\* The two image limits are imported from types/image-attachment; the handler
\* only compares with them, so small stand-ins keep the comparisons.
MAX_IMAGES_PER_MESSAGE == 2
MAX_IMAGE_SIZE_BYTES == 3
MaxDeployCalls == 3  \* deployToSandbox calls not yet returned
MaxCalls == 2        \* configureMetadata calls followed
MaxResources == 2    \* resource bindings declared in one metadata

----------------------------------------------------------------------------
(* Conversation store *)

NoRow == [row |-> "absent"]

ConvIds == 1..MaxConvIds
Contents == {"a", "b"}
ConversationMessage == [conversationId : ConvIds, content : Contents]

Message(id, c) == [conversationId |-> id, content |-> c]

\* The in-memory compact log a session starts with: empty for a new session;
\* for a session rehydrated or cloned from a state that kept its messages in
\* memory, a log with one message, with two, or with a repeated conversationId.
RehydratedLogs ==
    { <<>>,
      <<Message(1, "a")>>,
      <<Message(1, "a"), Message(2, "a")>>,
      <<Message(2, "b"), Message(1, "b")>>,
      <<Message(1, "a"), Message(1, "b")>> }

Ids(log) == {log[i].conversationId : i \in 1..Len(log)}
HasId(log, id) == \E i \in 1..Len(log) : log[i].conversationId = id
NoDuplicateIds(log) ==
    \A i, j \in 1..Len(log) : log[i].conversationId = log[j].conversationId => i = j

\* JSON.stringify of a message list, as stored in the messages column.
JsonStringify(log) == [row |-> "json", text |-> log]

\* rows.length > 0 && rows[0].messages, JSON.parse, Array.isArray: the list held
\* by a row, the empty list when there is no row.
ParseRow(row) == IF row = NoRow THEN <<>> ELSE row.text

RECURSIVE DedupFrom(_, _, _)
DedupFrom(log, i, seen) ==
    IF i > Len(log) THEN <<>>
    ELSE IF log[i].conversationId \in seen
         THEN DedupFrom(log, i + 1, seen)
         ELSE <<log[i]>> \o DedupFrom(log, i + 1, seen \cup {log[i].conversationId})

DeduplicateKeepAll(log) == log

\* deduplicateMessages: keeps the first message of every conversationId.
DeduplicateMessages(log) == DedupFrom(log, 1, {})

\* fullHistory / runningHistory before deduplication: the row's list, and the
\* in-memory log when that list is empty.
LoadHistory(row, current) ==
    IF Len(ParseRow(row)) = 0 THEN current ELSE ParseRow(row)

ConvStateOf(current, fullRow, compactRow) ==
    [runningHistory |-> DeduplicateMessages(LoadHistory(compactRow, current)),
     fullHistory    |-> DeduplicateMessages(LoadHistory(fullRow, current))]

GetConversationState ==
    ConvStateOf(conversationMessages, full_conversations, compact_conversations)

UpsertAppend(log, m) == Append(log, m)

\* find(...) ? map(replace) : push
Upsert(log, m) ==
    IF HasId(log, m.conversationId)
    THEN [i \in 1..Len(log) |->
            IF log[i].conversationId = m.conversationId THEN m ELSE log[i]]
    ELSE Append(log, m)

\* How the two INSERT OR REPLACE statements of setConversationState end: both
\* written, the first one throws, or the second one throws (the catch logs).
PersistOutcomes == {"ok", "failCompact", "failFull"}

SetConversationState(conv, outcome) ==
    /\ compact_conversations' =
         IF outcome \in {"ok", "failFull"}
         THEN JsonStringify(conv.runningHistory) ELSE compact_conversations
    /\ full_conversations' =
         IF outcome = "ok"
         THEN JsonStringify(conv.fullHistory) ELSE full_conversations

NoMsg == [conversationId |-> 0, content |-> None]
NoConvState == [runningHistory |-> <<>>, fullHistory |-> <<>>]
NoHist == [op |-> None, msg |-> NoMsg, outcome |-> None, again |-> FALSE,
           before |-> NoConvState, rows |-> <<NoRow, NoRow>>]
NoReply == [sent |-> FALSE, state |-> NoConvState, afterClear |-> FALSE]

AddConversationMessage(m, outcome) ==
    LET cs == GetConversationState
        next == [runningHistory |-> Upsert(cs.runningHistory, m),
                 fullHistory    |-> Upsert(cs.fullHistory, m)]
        again == /\ convHist.op = "add"
                 /\ convHist.msg = m
                 /\ convHist.outcome \in {"ok", outcome}
    IN  /\ SetConversationState(next, outcome)
        /\ convHist' = [op |-> "add", msg |-> m, outcome |-> outcome,
                        again |-> again,
                        before |-> cs,
                        rows |-> IF again
                                 THEN <<compact_conversations, full_conversations>>
                                 ELSE <<NoRow, NoRow>>]
        /\ convReply' = NoReply
        /\ UNCHANGED <<conversationMessages, sessionVars, extVars>>

\* clearConversation: only the in-memory log is emptied.
ClearConversation ==
    /\ conversationMessages' = <<>>
    /\ convHist' = [NoHist EXCEPT !.op = "clear", !.before = GetConversationState]
    /\ convReply' = NoReply
    /\ UNCHANGED <<full_conversations, compact_conversations, sessionVars, extVars>>

\* handleWebSocketMessage, CLEAR_CONVERSATION
FrameClearConversation == ClearConversation

\* handleWebSocketMessage, GET_CONVERSATION_STATE: replies conversation_state.
FrameGetConversationState ==
    /\ convReply' = [sent |-> TRUE, state |-> GetConversationState,
                     afterClear |-> convHist.op = "clear"]
    /\ convHist' = [NoHist EXCEPT !.op = "get"]
    /\ UNCHANGED <<conversationMessages, full_conversations,
                   compact_conversations, sessionVars, extVars>>

AddMessage == \E m \in ConversationMessage, o \in PersistOutcomes :
                 AddConversationMessage(m, o)

----------------------------------------------------------------------------
(* Session: events and cancellation controller *)

Conns == {"c1", "c2"}
ProjectTypes == {"app", "workflow"}

PhaseEvents == {"phase_generating", "phase_generated",
                "phase_implementing", "phase_implemented"}
FileEvents == {"file_generating", "file_chunk_generated", "file_generated"}

\* broadcast(type): one message to every attached connection.
Broadcast(type) == [type |-> type, to |-> "all"]
\* sendToConnection(connection, type)
SendToConnection(c, type) == [type |-> type, to |-> c]
SendErrorToAll(c) == Broadcast("error")

\* sendError(connection, message)
SendError(c) == SendToConnection(c, "error")

NoInput == [message |-> FALSE, images |-> <<>>]
NoStep == [op |-> None, conn |-> None, threw |-> FALSE,
           wasGenerating |-> FALSE, abortEnd |-> FALSE, input |-> NoInput,
           afterStop |-> FALSE]
Step(op, c) == [NoStep EXCEPT !.op = op, !.conn = c]

\* A generation: where it stands ("llm": the top-level dialogue is awaited,
\* "tool": a generate_files call is awaited, "phase": the app generation runs),
\* the connection and frame that started it, the signal its inference holds.
NoGen == [pc |-> "unused", conn |-> None, via |-> None, signal |-> 0]
GenIds == 1..MaxGens
InFlightGens == {g \in GenIds : gens[g].pc \in {"llm", "tool", "phase"}}
UnusedGens == {g \in GenIds : gens[g].pc = "unused"}
FirstOf(S) == CHOOSE x \in S : \A y \in S : x <= y

\* A deep-debug run: "fetch" while fetchRuntimeErrors is awaited, "run" while
\* the debugger loop is awaited; the signal its inference context holds.
DebugRun(pc, signal) == [pc |-> pc, signal |-> signal]
DebugRuns == [pc : {"fetch", "run"}, signal : 1..MaxControllers]
InFlightRuns == BagToSet(debugRuns)

IsCodeGeneratingNever == FALSE

\* isCodeGenerating
IsCodeGenerating == generationPromise # 0

\* isDeepDebugging
IsDeepDebugging == deepDebugPromise

\* getOrCreateAbortController: the current controller unless there is none or
\* it is aborted; then a new one.
ReusesController ==
    currentAbortController # 0 /\ currentAbortController \notin abortedSignals
ControllerAfterGet ==
    IF ReusesController THEN currentAbortController ELSE controllersCreated + 1
CanGetController == ReusesController \/ controllersCreated < MaxControllers
\* getOrCreateAbortController without the reuse: a new controller each time.
AlwaysNewController ==
    /\ controllersCreated < MaxControllers
    /\ currentAbortController' = controllersCreated + 1
    /\ controllersCreated' = controllersCreated + 1
    /\ UNCHANGED abortedSignals

GetOrCreateAbortController ==
    /\ CanGetController
    /\ currentAbortController' = ControllerAfterGet
    /\ controllersCreated' =
         IF ReusesController THEN controllersCreated ELSE controllersCreated + 1
    /\ UNCHANGED abortedSignals

\* clearAbortController
ClearAbortController ==
    /\ currentAbortController' = 0
    /\ UNCHANGED <<controllersCreated, abortedSignals>>

CancelForgetsOnly ==
    /\ currentAbortController' = 0
    /\ UNCHANGED <<controllersCreated, abortedSignals>>

\* cancelCurrentInference: aborts and forgets the current controller.
CancelCurrentInference ==
    /\ abortedSignals' =
         IF currentAbortController # 0
         THEN abortedSignals \cup {currentAbortController} ELSE abortedSignals
    /\ currentAbortController' = 0
    /\ UNCHANGED controllersCreated

\* The inference context a WorkflowGenerator is constructed with
\* (this.state.inferenceContext): it carries no abortSignal.
StateInferenceContextSignal == 0

\* deploymentStatus: 'idle', deploymentError: null
NoDeployment == [status |-> "idle", error |-> None]
Deployment(status, error) == [status |-> status, error |-> error]

\* ---- sandbox deploys ----
\* The callers of deployToSandbox: the preview frame, the deploy_preview tool,
\* the redeploy after a failed runtime-error fetch, the preview-expired callback.
DeployOrigins == {"preview_frame", "deploy_preview", "runtime_errors", "preview_expired"}

InitSandbox ==
    /\ sandboxDeploying = <<>>
    /\ deployQueue = <<>>

\* ---- the process hosting the sessions (ProjectAgent, the dispatcher) ----
SessionIds == {"s1", "s2"}
\* The onStart calls a session can receive, each known by its props.
StartIds == {"p1", "p2"}
\* projectType of the props or of the persisted state; None when absent.
TypeOrNone == ProjectTypes \cup {None}

\* A ProjectAgent instance: where its constructor stands ("none": not
\* constructed, "super": inside super(ctx, env), "attached": constructor
\* returned), ctx.props.projectType, the projectType of the persisted state
\* (None for a new session), this.state.projectType once materialised,
\* this.activeAgent, this.onStartDeferred, the promise of each onStart call
\* ("none": not called, "deferred": pending in the dispatcher, "running": the
\* controller's onStart is awaited, "resolved" / "rejected") and the props
\* with which the controller's onStart was invoked, in order.
NoAgent == [stage |-> "none", props |-> None, persisted |-> None,
            stateProjectType |-> None, activeAgent |-> None,
            onStartDeferred |-> None,
            starts |-> [r \in StartIds |-> "none"], controllerStarts |-> <<>>]

\* What the source leaves to the build and to the Agent base class: whether
\* the base class materialises the state inside super(), where the instance
\* has no initialState of its own and the prototype's is seen, or at the
\* first this.state, after the field initialiser ran; whether the fields
\* declared without an initialiser are (re)defined when super() returns.
Builds == [baseReadsPrototype : BOOLEAN, defineFields : BOOLEAN]
NoBuild == [baseReadsPrototype |-> FALSE, defineFields |-> FALSE]

InitHost ==
    /\ prototypeInitialState = None
    /\ agents = [s \in SessionIds |-> NoAgent]
    /\ build = NoBuild

InitAgentOf(type) ==
    /\ projectType = type
    /\ shouldBeGenerating = FALSE
    /\ generationPromise = 0
    /\ gens = [g \in GenIds |-> NoGen]
    /\ currentAbortController = 0
    /\ controllersCreated = 0
    /\ abortedSignals = {}
    /\ workflowMetadata = FALSE
    /\ deepDebugPromise = FALSE
    /\ debugRuns = EmptyBag
    /\ pendingOps = {}
    /\ deployment = NoDeployment
    /\ sent = {}
    /\ lastStep = NoStep
    /\ stopAcked = FALSE

\* ---- files and version control ----
Paths == {"src/index.ts", "wrangler.jsonc", "package.json"}
\* The files of the workflow scaffold (getTemplateDetails().allFiles).
ScaffoldPaths == {"src/index.ts", "wrangler.jsonc"}

\* A session's files: whether the session exists, the paths of
\* state.generatedFilesMap, the paths contained in a commit of the session's
\* own store, whether the store has a HEAD.
NoRepo == [exists |-> FALSE, generatedFilesMap |-> {}, committed |-> {}, head |-> FALSE]

InitRepos == repos = [s \in SessionIds |-> NoRepo]

\* No exportGitObjects call has returned.
NoExport == [session |-> None, gitObjects |-> {}, hasCommits |-> FALSE, head |-> FALSE]
InitExported == exported = NoExport

\* ---- workflow metadata ----
\* A JavaScript object as its entries in insertion order, keys unique.
Entry(k, v) == [key |-> k, value |-> v]
ObjKeys(o) == {o[i].key : i \in DOMAIN o}
ObjGet(o, k) == o[CHOOSE i \in DOMAIN o : o[i].key = k].value

\* An optional object: undefined, or an object.
Undefined == [defined |-> FALSE, entries |-> <<>>]
Defined(o) == [defined |-> TRUE, entries |-> o]
\* ...x and x || {}: undefined contributes no entry.
OrEmpty(x) == x.entries

\* The objects the metadata of the model declare: keys "a" and "b".
Objects == {<<>>,
            <<Entry("a", 1)>>, <<Entry("a", 2)>>, <<Entry("b", 1)>>,
            <<Entry("a", 1), Entry("b", 1)>>, <<Entry("a", 2), Entry("b", 1)>>}
OptionalObjects == {Defined(o) : o \in Objects} \cup {Undefined}

\* bindings.resources: binding names with the type of each.
ResourceTypes == {"kv", "r2", "d1", "queue", "ai"}
ResourceNames == {"A", "B"}
Resources == {o \in UNION {[1..n -> [key : ResourceNames, value : ResourceTypes]] :
                              n \in 0..MaxResources} :
                  \A i, j \in DOMAIN o : o[i].key = o[j].key => i = j}

\* metadata.bindings: undefined, or its three optional maps.
\* The same keys as resource bindings, of type kv or r2.
AsResources(o) ==
    [i \in DOMAIN o |-> Entry(o[i].key, IF o[i].value = 1 THEN "kv" ELSE "r2")]

NoBindings == [defined |-> FALSE, envVars |-> Undefined, secrets |-> Undefined,
               resources |-> Undefined]
Bindings(envVars, secrets, resources) ==
    [defined |-> TRUE, envVars |-> envVars, secrets |-> secrets, resources |-> resources]

\* state.workflowMetadata: null, or a metadata.
NoMetadata == [defined |-> FALSE, name |-> None, description |-> None,
               params |-> <<>>, bindings |-> NoBindings]
Metadata(name, params, bindings) ==
    [defined |-> TRUE, name |-> name, description |-> name,
     params |-> params, bindings |-> bindings]

\* The metadata a configureMetadata call is given: params alone, or bindings
\* with one of the three maps declared.
MetadataNames == {"n1", "n2"}
Metadatas ==
    {Metadata(n, o, NoBindings) : n \in MetadataNames, o \in Objects}
    \cup {Metadata(n, <<>>, Bindings(o, Undefined, Undefined)) :
              n \in MetadataNames, o \in OptionalObjects}
    \cup {Metadata(n, <<>>, Bindings(Undefined, Defined(o), Undefined)) :
              n \in MetadataNames, o \in Objects}
    \cup {Metadata(n, <<>>, Bindings(Undefined, Undefined, Defined(AsResources(o)))) :
              n \in MetadataNames, o \in Objects}

\* The files generated from the metadata, as held in generatedFilesMap:
\* wrangler.jsonc as its binding sections, README.md as the metadata it
\* documents.
NoWrangler == [vars |-> {}, kv_namespaces |-> <<>>, r2_buckets |-> <<>>,
               d1_databases |-> <<>>, producers |-> <<>>, ai |-> None]

\* this.templateDetailsCache: null, or the scaffold generated last.
NoCache == [defined |-> FALSE, wrangler |-> NoWrangler, readme |-> NoMetadata]

\* A workflow session: state.workflowMetadata, the configureMetadata calls
\* made so far, templateDetailsCache, the two files of generatedFilesMap,
\* the last generation event.
NoWorkflow == [workflowMetadata |-> NoMetadata, calls |-> <<>>,
               templateDetailsCache |-> NoCache,
               wrangler |-> NoWrangler, readme |-> NoMetadata, generation |-> "idle"]

InitWorkflow == workflow = NoWorkflow

\* A plugin: its name, which object it is, and what each of its hooks does
\* when called: "none" (not defined), "ok" (resolves), "throw" (throws or
\* rejects). hook stands for the lifecycle hook executeHook is called with;
\* onRegister and onUnregister are called with ?. and an undefined one acts
\* as one that resolves.
PluginNames == {"p", "q"}
PluginIds == {1, 2}
HookKinds == {"none", "ok", "throw"}
OptionalHookKinds == {"ok", "throw"}
Plugins == [name: PluginNames, id: PluginIds, onRegister: OptionalHookKinds,
            hook: HookKinds, onUnregister: OptionalHookKinds]

\* A PluginManager after construction: no plugin, no call made yet.
NoCall == [op |-> "none", name |-> None, id |-> 0, before |-> <<>>,
           awaited |-> <<>>, errors |-> <<>>, threw |-> FALSE]
NoPlugins == [registry |-> <<>>, last |-> NoCall]

InitPlugins == plugins = NoPlugins

\* No register call is awaiting an onRegister.
InitRegistering == registering = {}

\* No tool was called yet.
NoToolCall == [tool |-> None, log |-> <<>>, result |-> None, threw |-> FALSE,
               schemaOk |-> TRUE]

InitToolCall == toolCall = NoToolCall

\* A project name, as far as /^[a-z0-9-_]{3,50}$/ can tell names apart: its
\* length and the classes of the characters in it.
CharClasses == {"lower", "digit", "dash", "underscore", "upper", "other"}
Name(len, classes) == [len |-> len, classes |-> classes]

\* INITIAL_STATE.projectName: ''.
NoName == Name(0, {})

\* No updateProjectName call was made yet.
NoRename == [session |-> None, newName |-> NoName, before |-> NoName,
             after |-> NoName, returned |-> TRUE, broadcast |-> FALSE]

InitNames == names = [projectName |-> [s \in SessionIds |-> NoName],
                      initialized |-> [s \in SessionIds |-> FALSE],
                      last |-> NoRename]

\* No WebSocket is attached, nothing was broadcast: the connections in the
\* order of getWebSockets(), what each received, the broadcasts made with
\* the connections each could be sent to, whether the last one threw.
InitChannels == channels = [attached |-> <<>>,
                            received |-> [c \in Conns |-> <<>>],
                            log |-> <<>>,
                            threw |-> FALSE]

\* The commands execCommands is given, word by word.
Commands == {<<"bun", "install">>, <<"bun", "add", "zod">>, <<"npm", "uninstall", "zod">>,
             <<"ls">>}

\* The contents package.json can have in the sandbox.
PackageJsons == {"v0", "v1"}

\* No call to the sandbox was made yet.
NoSandboxCall == [op |-> None, answer |-> None, threw |-> FALSE, events |-> {},
                  synced |-> FALSE, commands |-> <<>>, shouldSave |-> FALSE,
                  returned |-> None,
                  before |-> [commandsHistory |-> {}, lastPackageJson |-> "v0"]]

\* INITIAL_STATE: no sandbox instance, no commands executed, the package.json
\* of the template.
InitSandboxState ==
    sandboxState = [sandboxInstanceId |-> FALSE, commandsHistory |-> {},
                    lastPackageJson |-> "v0", last |-> NoSandboxCall]

\* The variables added to the session's control, at rest.
\* ---- the scaffold of a workflow session and its cache ----
ProjectNames == {"p1", "p2"}

\* The contents of src/index.ts: its text and the class it exports as a
\* WorkflowEntrypoint, if any; NoCode when generatedFilesMap has no such file.
NoCode == [present |-> FALSE, text |-> "", exports |-> None]
Code(text, exports) == [present |-> TRUE, text |-> text, exports |-> exports]
Codes == {Code("", None), Code("v1", "Alpha"), Code("v2", None)}

\* getWorkflowCode: fileContents || null
GetWorkflowCode(file) == IF file.present /\ file.text # "" THEN file ELSE NoCode

\* extractWorkflowClassName, getWorkflowClassName
ExtractWorkflowClassName(code) ==
    IF code.exports # None THEN code.exports ELSE "MyWorkflow"
GetWorkflowClassName(file) ==
    IF GetWorkflowCode(file).present
    THEN ExtractWorkflowClassName(GetWorkflowCode(file)) ELSE "MyWorkflow"

\* this.templateDetailsCache = null
NoTemplateDetails == [defined |-> FALSE, name |-> None, class_name |-> None,
                      indexTs |-> [stub |-> FALSE, body |-> None],
                      wrangler |-> NoWrangler, readme |-> NoMetadata]

InitTemplateState ==
    templateState = [projectName |-> "p1", indexTs |-> NoCode,
                     workflowMetadata |-> NoMetadata,
                     templateDetailsCache |-> NoTemplateDetails,
                     returned |-> NoTemplateDetails]

InitParts ==
    /\ InitRepos
    /\ InitWorkflow
    /\ InitPlugins
    /\ InitToolCall
    /\ InitNames
    /\ InitChannels
    /\ InitSandboxState
    /\ InitTemplateState
    /\ InitRegistering
    /\ InitExported

InitExt == InitParts

\* The conversation store, the session's control and the process, at rest.
InitCore ==
    /\ conversationMessages = <<>>
    /\ full_conversations = NoRow
    /\ compact_conversations = NoRow
    /\ convReply = NoReply
    /\ convHist = NoHist
    /\ InitAgentOf("app")
    /\ InitSandbox
    /\ InitHost

\* A session whose sandbox is idle, hosted alone in its process.
InitSessionOf(type) == InitAgentOf(type) /\ InitSandbox /\ InitHost /\ InitExt

InitSession == \E type \in ProjectTypes : InitSessionOf(type)

----------------------------------------------------------------------------
(* Session: generation *)

ctlVars == <<currentAbortController, controllersCreated, abortedSignals>>

\* An inference streams and completes only while its signal is not aborted;
\* an inference without a signal cannot observe a cancel.
StreamOpen(signal) == signal \notin abortedSignals

\* How the top-level inference of a generation can end: normally, with an
\* InferError (the client failed after a partial response), with another error.
InferenceOutcomes == {"ok", "InferError", "Error"}

\* What an inference whose signal was aborted ends with: the client's
\* cancelled outcome, an InferError carrying the partial transcript.
AbortOutcome == "InferError"

RunCatchesNothing(e) == FALSE

\* WorkflowGenerator.run: catch (e) { if (e instanceof InferError) ... else throw e }
RunCatches(e) == e = "InferError"

\* AgenticCodingAgent.generateAllFiles, and the handler's finally when the
\* promise settles at once.
WorkflowGenerateAllFiles(c, via, before) ==
    IF workflowMetadata \/ IsCodeGenerating
    THEN /\ sent' = before
         /\ shouldBeGenerating' =
              IF via = "generate_all" THEN IsCodeGenerating ELSE TRUE
         /\ UNCHANGED <<generationPromise, gens, ctlVars>>
    ELSE /\ UnusedGens # {}
         /\ generationPromise' = FirstOf(UnusedGens)
         /\ gens' = [gens EXCEPT ![FirstOf(UnusedGens)] =
                        [pc |-> "llm", conn |-> c, via |-> via,
                         signal |-> StateInferenceContextSignal]]
         /\ sent' = before \cup {Broadcast("generation_started")}
         /\ shouldBeGenerating' = TRUE
         /\ UNCHANGED ctlVars

\* The app agent's generateAllFiles: one generation behind the operation
\* handle, started with the current cancellation token.
AppGenerateAllFiles(c, via, before) ==
    IF IsCodeGenerating
    THEN /\ sent' = before
         /\ shouldBeGenerating' = TRUE
         /\ UNCHANGED <<generationPromise, gens, ctlVars>>
    ELSE /\ UnusedGens # {}
         /\ GetOrCreateAbortController
         /\ generationPromise' = FirstOf(UnusedGens)
         /\ gens' = [gens EXCEPT ![FirstOf(UnusedGens)] =
                        [pc |-> "phase", conn |-> c, via |-> via,
                         signal |-> ControllerAfterGet]]
         /\ sent' = before \cup {Broadcast("generation_started")}
         /\ shouldBeGenerating' = TRUE

GenerateAllFiles(c, via, before) ==
    IF projectType = "workflow"
    THEN WorkflowGenerateAllFiles(c, via, before)
    ELSE AppGenerateAllFiles(c, via, before)

\* handleWebSocketMessage, GENERATE_ALL
FrameGenerateAll(c) ==
    /\ lastStep' = [Step("generate_all", c) EXCEPT
                       !.wasGenerating = (InFlightGens # {}),
                       !.afterStop = stopAcked]
    /\ stopAcked' = FALSE
    /\ IF IsCodeGenerating
       THEN /\ shouldBeGenerating' = TRUE
            /\ sent' = {}
            /\ UNCHANGED <<generationPromise, gens, ctlVars>>
       ELSE GenerateAllFiles(c, "generate_all", {})
    /\ UNCHANGED <<convVars, extVars, hostVars, deployment, projectType, workflowMetadata, deepDebugPromise, debugRuns,
                   pendingOps>>

\* handleWebSocketMessage, RESUME_GENERATION
FrameResumeGeneration(c) ==
    /\ lastStep' = [Step("resume_generation", c) EXCEPT
                       !.wasGenerating = (InFlightGens # {})]
    /\ stopAcked' = FALSE
    /\ IF projectType # "app"
       THEN /\ sent' = {SendError(c)}
            /\ UNCHANGED <<shouldBeGenerating, generationPromise, gens, ctlVars>>
       ELSE IF IsCodeGenerating
       THEN /\ shouldBeGenerating' = TRUE
            /\ sent' = {}
            /\ UNCHANGED <<generationPromise, gens, ctlVars>>
       ELSE GenerateAllFiles(c, "resume_generation",
                             {SendToConnection(c, "generation_resumed")})
    /\ UNCHANGED <<convVars, extVars, hostVars, deployment, projectType, workflowMetadata, deepDebugPromise, debugRuns,
                   pendingOps>>

\* handleWebSocketMessage, STOP_GENERATION
FrameStopGeneration(c) ==
    /\ CancelCurrentInference
    /\ shouldBeGenerating' =
         IF projectType = "app" THEN FALSE ELSE shouldBeGenerating
    /\ sent' = {SendToConnection(c, "generation_stopped")}
    /\ lastStep' = Step("stop_generation", c)
    /\ stopAcked' = TRUE
    /\ UNCHANGED <<convVars, extVars, hostVars, deployment, projectType, generationPromise, gens, workflowMetadata,
                   deepDebugPromise, debugRuns, pendingOps>>

\* The end of a generation: executeGeneration's completion or catch, its
\* finally, then the catch and finally the handler chained on the promise.
EndGeneration(g, e, abortEnd) ==
    LET failed == /\ e \notin {"ok", "cancelled"}
                  /\ ~(projectType = "workflow" /\ RunCatches(e))
    IN  /\ sent' =
             IF failed
             THEN (IF projectType = "workflow" THEN {Broadcast("error")} ELSE {})
                     \cup {SendError(gens[g].conn)}
             ELSE IF e = "cancelled" THEN {}
             ELSE {Broadcast("generation_completed")}
        /\ lastStep' = [Step("generation_end", gens[g].conn) EXCEPT
                           !.threw = failed, !.abortEnd = abortEnd]
        /\ generationPromise' = 0
        /\ ClearAbortController
        /\ gens' = [gens EXCEPT ![g] = NoGen]
        /\ shouldBeGenerating' =
             IF gens[g].via = "generate_all" THEN FALSE ELSE shouldBeGenerating
        /\ UNCHANGED <<convVars, extVars, hostVars, deployment, projectType, workflowMetadata, deepDebugPromise,
                       debugRuns, pendingOps, stopAcked>>

\* The dialogue calls the generate_files tool: generateFiles broadcasts
\* phase_implementing and starts the code-generation inference with
\* getOperationOptions(), whose inference context holds the current signal.
WfCallGenerateFiles(g) ==
    /\ gens[g].pc = "llm"
    /\ GetOrCreateAbortController
    /\ gens' = [gens EXCEPT ![g].pc = "tool", ![g].signal = ControllerAfterGet]
    /\ sent' = {Broadcast("phase_implementing")}
    /\ lastStep' = NoStep
    /\ UNCHANGED <<convVars, extVars, hostVars, deployment, projectType, shouldBeGenerating, generationPromise,
                   workflowMetadata, deepDebugPromise, debugRuns, pendingOps,
                   stopAcked>>

\* The streaming callbacks of generateFiles.
WfFileEvent(g, e) ==
    /\ gens[g].pc = "tool"
    /\ StreamOpen(gens[g].signal)
    /\ sent' = {Broadcast(e)}
    /\ lastStep' = NoStep
    /\ UNCHANGED <<convVars, extVars, hostVars, deployment, projectType, shouldBeGenerating, generationPromise, gens,
                   ctlVars, workflowMetadata, deepDebugPromise, debugRuns,
                   pendingOps, stopAcked>>

\* generateFiles returns: the files are saved, the dialogue goes on.
WfGenerateFilesReturns(g) ==
    /\ gens[g].pc = "tool"
    /\ StreamOpen(gens[g].signal)
    /\ gens' = [gens EXCEPT ![g].pc = "llm", ![g].signal = 0]
    /\ sent' = {}
    /\ lastStep' = NoStep
    /\ UNCHANGED <<convVars, extVars, hostVars, deployment, projectType, shouldBeGenerating, generationPromise,
                   ctlVars, workflowMetadata, deepDebugPromise, debugRuns,
                   pendingOps, stopAcked>>

\* The inference of generateFiles observes its aborted signal: the cancelled
\* outcome ends the dialogue, which WorkflowGenerator.run then handles.
WfGenerateFilesAborted(g) ==
    /\ gens[g].pc = "tool"
    /\ ~StreamOpen(gens[g].signal)
    /\ EndGeneration(g, AbortOutcome, TRUE)

\* The dialogue calls configure_workflow_metadata.
WfConfigureMetadata(g) ==
    /\ gens[g].pc = "llm"
    /\ workflowMetadata' = TRUE
    /\ sent' = {}
    /\ lastStep' = NoStep
    /\ UNCHANGED <<convVars, extVars, hostVars, deployment, projectType, shouldBeGenerating, generationPromise, gens,
                   ctlVars, deepDebugPromise, debugRuns, pendingOps, stopAcked>>

\* The top-level inference of WorkflowGenerator.run ends.
WfInferenceEnds(g, e) ==
    /\ gens[g].pc = "llm"
    /\ EndGeneration(g, e, FALSE)

\* The app generation emits a phase or file event.
AppEmits(g, e) ==
    /\ gens[g].pc = "phase"
    /\ StreamOpen(gens[g].signal)
    /\ sent' = {Broadcast(e)}
    /\ lastStep' = NoStep
    /\ UNCHANGED <<convVars, extVars, hostVars, deployment, projectType, shouldBeGenerating, generationPromise, gens,
                   ctlVars, workflowMetadata, deepDebugPromise, debugRuns,
                   pendingOps, stopAcked>>

\* The app generation observes its aborted token and returns cancelled.
AppObservesAbort(g) ==
    /\ gens[g].pc = "phase"
    /\ ~StreamOpen(gens[g].signal)
    /\ EndGeneration(g, "cancelled", TRUE)

\* The app generation completes or throws.
AppEnds(g, e) ==
    /\ gens[g].pc = "phase"
    /\ StreamOpen(gens[g].signal)
    /\ EndGeneration(g, e, FALSE)


----------------------------------------------------------------------------
(* Session: deep debug *)

\* executeDeepDebug up to its first await: getOperationOptions() takes the
\* inference context (the current signal), fetchRuntimeErrors is started, and
\* the promise is stored.
ExecuteDeepDebug ==
    /\ BagCardinality(debugRuns) < MaxDebugRuns
    /\ GetOrCreateAbortController
    /\ debugRuns' = debugRuns (+) SetToBag({DebugRun("fetch", ControllerAfterGet)})
    /\ deepDebugPromise' = TRUE
    /\ sent' = {}
    /\ lastStep' = NoStep
    /\ UNCHANGED <<convVars, extVars, hostVars, deployment, projectType, shouldBeGenerating, generationPromise, gens,
                   workflowMetadata, pendingOps, stopAcked>>

\* fetchRuntimeErrors returned: the debugger is constructed and run.
DebugFetched(d) ==
    /\ d \in InFlightRuns
    /\ d.pc = "fetch"
    /\ debugRuns' = (debugRuns (-) SetToBag({d}))
                        (+) SetToBag({DebugRun("run", d.signal)})
    /\ sent' = {}
    /\ lastStep' = NoStep
    /\ UNCHANGED <<convVars, extVars, hostVars, deployment, projectType, shouldBeGenerating, generationPromise, gens,
                   ctlVars, workflowMetadata, deepDebugPromise, pendingOps,
                   stopAcked>>

\* The run returns its transcript or is caught; finally clears the promise.
DebugSettles(d) ==
    /\ d \in InFlightRuns
    /\ debugRuns' = debugRuns (-) SetToBag({d})
    /\ deepDebugPromise' = FALSE
    /\ sent' = {}
    /\ lastStep' = NoStep
    /\ UNCHANGED <<convVars, extVars, hostVars, deployment, projectType, shouldBeGenerating, generationPromise, gens,
                   ctlVars, workflowMetadata, pendingOps, stopAcked>>

----------------------------------------------------------------------------
(* Session: the other control frames *)

OpKinds == {"preview", "deploy", "capture_screenshot", "user_suggestion",
            "get_model_configs"}
Ops == [kind : OpKinds, conn : Conns]
AppOnlyNone == {}

\* Frames the handler rejects unless the agent is a SimpleCodeGeneratorAgent.
AppOnlyKinds == {"capture_screenshot", "user_suggestion", "get_model_configs"}
\* Frames whose promise has a catch that calls sendError.
ReportsRejection(kind) == kind \in {"user_suggestion", "get_model_configs"}
\* deployToCloudflare catches what is thrown inside it and returns null.
CatchesInside(kind) == kind = "deploy"

\* handleWebSocketMessage: DEPLOY, PREVIEW, CAPTURE_SCREENSHOT, USER_SUGGESTION,
\* GET_MODEL_CONFIGS start a controller method and return.
FrameOp(c, kind) ==
    /\ IF kind \in AppOnlyKinds /\ projectType # "app"
       THEN /\ sent' = {SendError(c)}
            /\ UNCHANGED pendingOps
       ELSE /\ Cardinality(pendingOps) < MaxPendingOps
            /\ pendingOps' = pendingOps \cup {[kind |-> kind, conn |-> c]}
            /\ sent' = {}
    /\ deployment' = IF kind = "deploy" /\ projectType = "workflow"
                     THEN Deployment("deploying", None) ELSE deployment
    /\ lastStep' = Step(kind, c)
    /\ UNCHANGED <<convVars, extVars, hostVars, projectType, shouldBeGenerating, generationPromise, gens,
                   ctlVars, workflowMetadata, deepDebugPromise, debugRuns,
                   stopAcked>>

\* The user_suggestion frames a client can send: with or without a message,
\* with up to one image more than allowed, each image given by its size field
\* (small, at the limit, over it).
ImageSizes == {1, MAX_IMAGE_SIZE_BYTES, MAX_IMAGE_SIZE_BYTES + 1}
ImageLists == UNION {[1..n -> ImageSizes] : n \in 0..(MAX_IMAGES_PER_MESSAGE + 1)}
Suggestions == [message : BOOLEAN, images : ImageLists]

ValidSuggestionBelowLimits(in) ==
    /\ in.message
    /\ Len(in.images) < MAX_IMAGES_PER_MESSAGE
    /\ \A i \in 1..Len(in.images) : in.images[i] < MAX_IMAGE_SIZE_BYTES

\* The checks of USER_SUGGESTION before handleUserInput: a message, at most
\* MAX_IMAGES_PER_MESSAGE images, no image.size above MAX_IMAGE_SIZE_BYTES.
ValidSuggestion(in) ==
    /\ in.message
    /\ ~(Len(in.images) > MAX_IMAGES_PER_MESSAGE)
    /\ \A i \in 1..Len(in.images) : ~(in.images[i] > MAX_IMAGE_SIZE_BYTES)

\* handleWebSocketMessage, USER_SUGGESTION
FrameUserSuggestion(c, in) ==
    /\ IF projectType # "app" \/ ~ValidSuggestion(in)
       THEN /\ sent' = {SendError(c)}
            /\ UNCHANGED pendingOps
       ELSE /\ Cardinality(pendingOps) < MaxPendingOps
            /\ pendingOps' = pendingOps \cup {[kind |-> "user_suggestion", conn |-> c]}
            /\ sent' = {}
    /\ lastStep' = [Step("user_suggestion", c) EXCEPT !.input = in]
    /\ UNCHANGED <<convVars, extVars, hostVars, deployment, projectType, shouldBeGenerating, generationPromise,
                   gens, ctlVars, workflowMetadata, deepDebugPromise, debugRuns,
                   stopAcked>>

\* AgenticCodingAgent.deployToCloudflare is the one that keeps
\* deploymentStatus / deploymentError.
WorkflowDeploy(op) == op.kind = "deploy" /\ projectType = "workflow"
\* What is thrown inside it: the missing-credentials error, or an error of the
\* deployment call.
DeployFailures == {"no_credentials", "deploy_error"}

\* The controller method returns.
OpResolves(op) ==
    /\ op \in pendingOps
    /\ pendingOps' = pendingOps \ {op}
    /\ sent' = IF op.kind = "get_model_configs"
               THEN {SendToConnection(op.conn, "model_configs_info")} ELSE {}
    /\ IF WorkflowDeploy(op)
       THEN deployment' \in {Deployment("deployed", None),
                             Deployment("failed", "no_url")}
       ELSE UNCHANGED deployment
    /\ lastStep' = Step("op_resolves", op.conn)
    /\ UNCHANGED <<convVars, extVars, hostVars, projectType, shouldBeGenerating, generationPromise, gens,
                   ctlVars, workflowMetadata, deepDebugPromise, debugRuns,
                   stopAcked>>

\* An exception is raised in the controller method: deployToCloudflare catches
\* it itself (the app agent broadcasts cloudflare_deployment_error, the workflow
\* agent sets deploymentStatus 'failed' and deploymentError, and broadcasts
\* nothing); the others reject and the handler's catch runs.
OpThrows(op) ==
    /\ op \in pendingOps
    /\ pendingOps' = pendingOps \ {op}
    /\ sent' = IF CatchesInside(op.kind)
               THEN (IF projectType = "app"
                     THEN {Broadcast("cloudflare_deployment_error")} ELSE {})
               ELSE IF ReportsRejection(op.kind) THEN {SendError(op.conn)}
               ELSE {}
    /\ IF WorkflowDeploy(op)
       THEN \E cause \in DeployFailures :
               deployment' = Deployment("failed", cause)
       ELSE UNCHANGED deployment
    /\ lastStep' = [Step(IF op.kind = "deploy" THEN "deploy_throws"
                         ELSE "op_throws", op.conn) EXCEPT !.threw = TRUE]
    /\ UNCHANGED <<convVars, extVars, hostVars, projectType, shouldBeGenerating, generationPromise, gens,
                   ctlVars, workflowMetadata, deepDebugPromise, debugRuns,
                   stopAcked>>

\* handleWebSocketMessage on a frame JSON.parse rejects: the outer catch.
FrameMalformed(c) ==
    /\ sent' = {SendError(c)}
    /\ lastStep' = [Step("malformed", c) EXCEPT !.threw = TRUE]
    /\ UNCHANGED <<convVars, extVars, hostVars, deployment, projectType, shouldBeGenerating, generationPromise, gens,
                   ctlVars, workflowMetadata, deepDebugPromise, debugRuns,
                   pendingOps, stopAcked>>

\* handleWebSocketMessage, default branch.
FrameUnknownType(c) ==
    /\ sent' = {SendError(c)}
    /\ lastStep' = Step("unknown_type", c)
    /\ UNCHANGED <<convVars, extVars, hostVars, deployment, projectType, shouldBeGenerating, generationPromise, gens,
                   ctlVars, workflowMetadata, deepDebugPromise, debugRuns,
                   pendingOps, stopAcked>>

----------------------------------------------------------------------------
(* Sandbox deploys *)

\* deploymentManager.deployToSandbox(files, redeploy, ..., callbacks) as section
\* 4.6 of the specification states it: a call that finds a deploy executing is
\* queued behind it; otherwise its deploy starts.
ManagerDeploysAtOnce(origin) ==
    /\ sandboxDeploying' = Append(sandboxDeploying, origin)
    /\ UNCHANGED deployQueue

ManagerDeployToSandbox(origin) ==
    IF sandboxDeploying = <<>>
    THEN /\ sandboxDeploying' = <<origin>>
         /\ UNCHANGED deployQueue
    ELSE /\ deployQueue' = Append(deployQueue, origin)
         /\ UNCHANGED sandboxDeploying

\* The events of a deployToSandbox call: onStarted fires when its deploy starts.
DeployStartEvents == IF sandboxDeploying' # sandboxDeploying
                     THEN {Broadcast("deployment_started")} ELSE {}

\* deployToSandbox(): the call is handed to the deployment manager as it comes.
DeployToSandbox(origin) ==
    /\ Len(sandboxDeploying) + Len(deployQueue) < MaxDeployCalls
    /\ ManagerDeployToSandbox(origin)
    /\ UNCHANGED <<convVars, extVars, sessionState, stopAcked, prototypeInitialState, agents, build>>

\* A preview frame: agent.deployToSandbox(), not awaited by the handler.
FramePreview(c) ==
    /\ DeployToSandbox("preview_frame")
    /\ sent' = DeployStartEvents
    /\ lastStep' = Step("preview_frame", c)

\* The deploy_preview tool: CodingAgent.deployPreview awaits deployToSandbox.
ToolDeployPreview ==
    /\ DeployToSandbox("deploy_preview")
    /\ sent' = DeployStartEvents
    /\ lastStep' = Step("deploy_preview", None)

\* fetchRuntimeErrors when the fetch throws: the catch starts a redeploy that
\* nobody awaits and returns no errors.
FetchRuntimeErrorsFails ==
    /\ DeployToSandbox("runtime_errors")
    /\ sent' = DeployStartEvents
    /\ lastStep' = Step("runtime_errors", None)

\* onPreviewExpired of deployToCloudflare: a redeploy that nobody awaits, then
\* the cloudflare_deployment_error broadcast.
OnPreviewExpired ==
    /\ DeployToSandbox("preview_expired")
    /\ sent' = DeployStartEvents \cup {Broadcast("cloudflare_deployment_error")}
    /\ lastStep' = Step("preview_expired", None)

\* The oldest executing sandbox deploy ends (onCompleted or onError fires);
\* when the sandbox is free the first queued call starts its deploy.
SandboxDeployEnds(ok) ==
    /\ sandboxDeploying # <<>>
    /\ LET rest == Tail(sandboxDeploying)
           next == rest = <<>> /\ deployQueue # <<>>
       IN /\ sandboxDeploying' = IF next THEN <<Head(deployQueue)>> ELSE rest
          /\ deployQueue' = IF next THEN Tail(deployQueue) ELSE deployQueue
          /\ sent' = {Broadcast(IF ok THEN "deployment_completed" ELSE "deployment_failed")}
                     \cup (IF next THEN {Broadcast("deployment_started")} ELSE {})
    /\ lastStep' = [Step("sandbox_deploy_ends", None) EXCEPT !.threw = ~ok]
    /\ UNCHANGED <<convVars, extVars, sessionState, stopAcked, prototypeInitialState, agents, build>>

----------------------------------------------------------------------------
(* The project-type dispatcher *)

\* What a construction is given: ctx.props.projectType (None when the props
\* carry none) and the persisted state (None for a new session, else the type
\* of the session that wrote it); a rehydration comes without props or with
\* those of the creation.
Constructions == {in \in [props : TypeOrNone, persisted : TypeOrNone] :
                      in.persisted # None => in.props \in {None, in.persisted}}

\* this.state.projectType of a persisted state: a WorkflowGenState carries
\* 'workflow', a CodeGenState carries no projectType.
PersistedProjectType(persisted) == IF persisted = "workflow" THEN "workflow" ELSE None

\* this.state.projectType of a new session: that of the initial state the base
\* class materialises; the prototype's when it is read inside super(), else
\* that of the instance's own field (PhasicCodingAgent.INITIAL_STATE, a
\* CodeGenState).
InitialProjectType(prototype) == IF build.baseReadsPrototype THEN prototype ELSE None

\* constructor, up to and into super(ctx, env): a 'workflow' prop stores the
\* workflow INITIAL_STATE on the prototype all instances share. A constructor
\* runs to its end before another one starts.
ConstructSuper(s, in) ==
    /\ \A t \in SessionIds : agents[t].stage # "super"
    /\ agents[s].stage = "none"
    /\ LET prototype == IF in.props = "workflow" THEN "workflow"
                        ELSE prototypeInitialState
       IN /\ prototypeInitialState' = prototype
          /\ agents' = [agents EXCEPT ![s] =
                 [NoAgent EXCEPT !.stage = "super",
                                 !.props = in.props,
                                 !.persisted = in.persisted,
                                 !.stateProjectType =
                                     IF in.persisted # None
                                     THEN PersistedProjectType(in.persisted)
                                     ELSE InitialProjectType(prototype)]]
    /\ sent' = {}
    /\ lastStep' = Step("construct", None)
    /\ UNCHANGED <<convVars, extVars, sessionState, stopAcked, sandboxDeploying, deployQueue, build>>

\* this.state.projectType || projectTypeProp || 'app'
ActualProjectType(a) ==
    IF a.stateProjectType # None THEN a.stateProjectType
    ELSE IF a.props # None THEN a.props
    ELSE "app"

\* this.onStartDeferred when super() has returned: what an onStart called
\* inside super() stored, unless the field, declared without an initialiser,
\* is defined anew.
DeferredAfterSuper(a) == IF build.defineFields THEN None ELSE a.onStartDeferred

\* constructor, after super(): the controller is instantiated and attached;
\* a deferred onStart is replayed on it and the slot is emptied.
ConstructAttach(s) ==
    /\ agents[s].stage = "super"
    /\ LET a == agents[s]
           r == DeferredAfterSuper(a)
       IN agents' = [agents EXCEPT ![s] =
              [a EXCEPT !.stage = "attached",
                        !.activeAgent = ActualProjectType(a),
                        !.onStartDeferred = None,
                        !.starts = IF r = None THEN a.starts
                                   ELSE [a.starts EXCEPT ![r] = "replaying"],
                        !.controllerStarts = IF r = None THEN a.controllerStarts
                                             ELSE Append(a.controllerStarts, r)]]
    /\ sent' = {}
    /\ lastStep' = Step("attach", None)
    /\ UNCHANGED <<convVars, extVars, sessionState, stopAcked, sandboxDeploying, deployQueue,
                   prototypeInitialState, build>>

\* onStart(props): without a controller the call is deferred, in the one slot,
\* and its promise is pending; with one it is the controller's onStart.
OnStart(s, r) ==
    /\ agents[s].stage \in {"super", "attached"}
    /\ agents[s].starts[r] = "none"
    /\ LET a == agents[s]
       IN agents' = [agents EXCEPT ![s] =
              IF a.activeAgent = None
              THEN [a EXCEPT !.onStartDeferred = r,
                             !.starts[r] = "deferred"]
              ELSE [a EXCEPT !.starts[r] = "running",
                             !.controllerStarts = Append(a.controllerStarts, r)]]
    /\ sent' = {}
    /\ lastStep' = Step("on_start", None)
    /\ UNCHANGED <<convVars, extVars, sessionState, stopAcked, sandboxDeploying, deployQueue,
                   prototypeInitialState, build>>

\* The controller's onStart settles: a replayed call resolves its requester
\* either way (.finally(resolve)), a delegated one settles as the controller's.
StartSettles(s, r, ok) ==
    /\ agents[s].starts[r] \in {"replaying", "running"}
    /\ agents' = [agents EXCEPT ![s].starts[r] =
           IF agents[s].starts[r] = "replaying" \/ ok THEN "resolved" ELSE "rejected"]
    /\ sent' = {}
    /\ lastStep' = [Step("start_settles", None) EXCEPT !.threw = ~ok]
    /\ UNCHANGED <<convVars, extVars, sessionState, stopAcked, sandboxDeploying, deployQueue,
                   prototypeInitialState, build>>

----------------------------------------------------------------------------
(* Files and version control *)

\* fileManager.saveGeneratedFiles(files, message) as section 4.3 of the
\* specification states it: the map is updated and one commit containing the
\* files is created, atomically; a failed commit rolls the map update back.
SaveGeneratedFiles(r, files, ok) ==
    IF ok THEN [r EXCEPT !.generatedFilesMap = @ \cup files,
                         !.committed = @ \cup files,
                         !.head = TRUE]
    ELSE r

\* gitInit(): without a HEAD and with generated files, one commit of all of
\* them; a failure is logged and swallowed.
GitInit(r, ok) ==
    IF ~r.head /\ r.generatedFilesMap # {} /\ ok
    THEN [r EXCEPT !.committed = @ \cup r.generatedFilesMap, !.head = TRUE]
    ELSE r

\* The names updateProjectName accepts: /^[a-z0-9-_]{3,50}$/.test(newName).
ValidProjectName(name) ==
    /\ name.len \in 3..50
    /\ name.classes \subseteq {"lower", "digit", "dash", "underscore"}

\* generateNanoId(): a short random id.
NanoIds == {Name(21, {"lower", "digit"}),
            Name(21, {"lower", "digit", "dash", "underscore"})}

\* generateProjectName(prefix, uniqueSuffix, maxPrefixLength): the prefix cut
\* to maxPrefixLength characters, a dash, the suffix.
PROJECT_NAME_PREFIX_MAX_LENGTH == 20
WorkflowPrefix == Name(8, {"lower"})
GenerateProjectName(prefix, uniqueSuffix, maxPrefixLength) ==
    Name((IF prefix.len < maxPrefixLength THEN prefix.len ELSE maxPrefixLength)
             + 1 + uniqueSuffix.len,
         prefix.classes \cup {"dash"} \cup uniqueSuffix.classes)

\* AgenticCodingAgent.initialize: the state is set to INITIAL_STATE (no
\* files) with the generated projectName, gitInit finds nothing to commit,
\* the scaffold is saved.
Initialize(s, id, ok) ==
    /\ ~repos[s].exists
    /\ repos' = [repos EXCEPT ![s] =
           SaveGeneratedFiles(GitInit([NoRepo EXCEPT !.exists = TRUE], TRUE),
                              ScaffoldPaths, ok)]
    /\ names' = [names EXCEPT
           !.projectName[s] = GenerateProjectName(WorkflowPrefix, id,
                                                  PROJECT_NAME_PREFIX_MAX_LENGTH),
           !.initialized[s] = TRUE]
    /\ UNCHANGED notStates

\* generate_files: the files of the phase are saved with one commit.
GenerateFiles(s, files, ok) ==
    /\ repos[s].exists
    /\ files # {}
    /\ repos' = [repos EXCEPT ![s] = SaveGeneratedFiles(repos[s], files, ok)]
    /\ UNCHANGED notRepos

\* syncPackageJsonFromSandbox with a changed package.json: saved and
\* committed alone; a failure is logged and swallowed.
SyncPackageJsonFromSandbox(s, ok) ==
    /\ repos[s].exists
    /\ repos' = [repos EXCEPT ![s] = SaveGeneratedFiles(repos[s], {"package.json"}, ok)]
    /\ UNCHANGED notRepos

\* deleteFiles(filePaths): the paths leave the map; the commits stay.
DeleteFiles(s, files) ==
    /\ repos[s].exists
    /\ files # {}
    /\ repos' = [repos EXCEPT ![s].generatedFilesMap = @ \ files]
    /\ UNCHANGED notRepos

\* cloneAgent(agentId): a new session is created and its state is set to
\* the original's state, generatedFilesMap and projectName included; the new
\* session has a store of its own, in which nothing was committed.
CloneAgent(s, t) ==
    /\ s # t
    /\ repos[s].exists
    /\ ~repos[t].exists
    /\ repos' = [repos EXCEPT ![t] =
           [NoRepo EXCEPT !.exists = TRUE,
                          !.generatedFilesMap = repos[s].generatedFilesMap]]
    /\ names' = [names EXCEPT !.projectName[t] = names.projectName[s],
                              !.initialized[t] = names.initialized[s]]
    /\ UNCHANGED notStates

\* The names updateProjectName is called with.
NameLengths == {2, 3, 50, 51}
NameClasses == {{"lower", "digit", "dash", "underscore"}, {"lower", "upper"}}
NameInputs == {Name(l, c) : l \in NameLengths, c \in NameClasses}
                  \cup {Name(3, {"dash", "other"}), NoName}

\* How the sandbox and the database answer a rename: the sandbox call is
\* made only when state.sandboxInstanceId is set ("none" otherwise).
SandboxAnswers == {"none", "ok", "fails", "throws"}
DatabaseAnswers == {"ok", "fails", "throws"}

\* updateProjectName without the test of the name.
RenameUnchecked(newName, sandbox, database) ==
    [stored |-> TRUE, broadcast |-> TRUE,
     returned |-> (sandbox \in {"none", "ok"} /\ database = "ok")]

\* updateProjectName(newName): whether the name is stored, whether
\* project_name_updated is broadcast, and what is returned.
Rename(newName, sandbox, database) ==
    IF ~ValidProjectName(newName)
    THEN [stored |-> FALSE, broadcast |-> FALSE, returned |-> FALSE]
    ELSE [stored |-> TRUE, broadcast |-> TRUE,
          returned |-> (sandbox \in {"none", "ok"} /\ database = "ok")]

UpdateProjectName(s, newName, sandbox, database) ==
    LET out == Rename(newName, sandbox, database)
    IN  /\ names' = [names EXCEPT
               !.projectName[s] = IF out.stored THEN newName ELSE @,
               !.last = [session |-> s, newName |-> newName,
                         before |-> names.projectName[s],
                         after |-> IF out.stored THEN newName
                                   ELSE names.projectName[s],
                         returned |-> out.returned, broadcast |-> out.broadcast]]
        /\ UNCHANGED notNames

\* exportGitObjects(): gitInit() runs again.
ExportGitObjects(s, ok) ==
    /\ repos[s].exists
    /\ repos' = [repos EXCEPT ![s] = GitInit(repos[s], ok)]
    /\ UNCHANGED notRepos

----------------------------------------------------------------------------
(* Workflow metadata *)

\* { ...a, ...b }: the entries of a, each overwritten in place by b's, then
\* b's new entries in their order.
RECURSIVE Spread(_, _)
Spread(a, b) ==
    IF b = <<>> THEN a
    ELSE LET e == Head(b)
             put == IF e.key \in ObjKeys(a)
                    THEN [i \in DOMAIN a |-> IF a[i].key = e.key THEN e ELSE a[i]]
                    ELSE Append(a, e)
         IN Spread(put, Tail(b))

MergeReplaces(existing, updates) == updates

\* mergeMetadata(existing, updates)
MergeMetadata(existing, updates) ==
    [defined |-> TRUE,
     name |-> updates.name,
     description |-> updates.description,
     params |-> Spread(existing.params, updates.params),
     bindings |->
         IF updates.bindings.defined
         THEN Bindings(Defined(Spread(OrEmpty(existing.bindings.envVars),
                                      OrEmpty(updates.bindings.envVars))),
                       Defined(Spread(OrEmpty(existing.bindings.secrets),
                                      OrEmpty(updates.bindings.secrets))),
                       Defined(Spread(OrEmpty(existing.bindings.resources),
                                      OrEmpty(updates.bindings.resources))))
         ELSE existing.bindings]

\* configureMetadata(metadata): merged with the existing metadata if there is
\* one, stored; the scaffold cache is dropped, the files of generatedFilesMap
\* are not touched.
WithMetadata(w, md) ==
    [w EXCEPT !.workflowMetadata = IF @.defined THEN MergeMetadata(@, md) ELSE md,
              !.templateDetailsCache = NoCache,
              !.calls = Append(@, md)]

ConfigureMetadata(md) ==
    /\ Len(workflow.calls) < MaxCalls
    /\ workflow' = WithMetadata(workflow, md)
    /\ UNCHANGED notWorkflow

\* The loop over bindings.resources of generateWorkflowScaffold: an entry
\* is pushed to the section of its type; the ai section is one binding.
RECURSIVE AddResources(_, _)
AddResources(w, resources) ==
    IF resources = <<>> THEN w
    ELSE LET name == Head(resources).key
             type == Head(resources).value
             next == IF type = "kv" THEN [w EXCEPT !.kv_namespaces = Append(@, name)]
                     ELSE IF type = "r2" THEN [w EXCEPT !.r2_buckets = Append(@, name)]
                     ELSE IF type = "d1" THEN [w EXCEPT !.d1_databases = Append(@, name)]
                     ELSE IF type = "queue" THEN [w EXCEPT !.producers = Append(@, name)]
                     ELSE IF type = "ai" THEN [w EXCEPT !.ai = name]
                     ELSE w
         IN AddResources(next, Tail(resources))

\* wranglerConfig of generateWorkflowScaffold({metadata}): vars from envVars
\* and secrets, the resource sections.
WranglerConfig(md) ==
    IF md.defined /\ md.bindings.defined
    THEN AddResources([NoWrangler EXCEPT !.vars = ObjKeys(OrEmpty(md.bindings.envVars))
                                               \cup ObjKeys(OrEmpty(md.bindings.secrets))],
                      OrEmpty(md.bindings.resources))
    ELSE NoWrangler

\* generateWorkflowScaffold({..., metadata: state.workflowMetadata})
GenerateWorkflowScaffold(md) ==
    [defined |-> TRUE, wrangler |-> WranglerConfig(md), readme |-> md]

\* getTemplateDetails(): the scaffold is generated when the cache is empty.
GetTemplateDetails ==
    /\ ~workflow.templateDetailsCache.defined
    /\ workflow' = [workflow EXCEPT !.templateDetailsCache =
                        GenerateWorkflowScaffold(workflow.workflowMetadata)]
    /\ UNCHANGED notWorkflow

\* updateTemplateDetails(): the scaffold is generated anew.
UpdateTemplateDetails ==
    /\ workflow' = [workflow EXCEPT !.templateDetailsCache =
                        GenerateWorkflowScaffold(workflow.workflowMetadata)]
    /\ UNCHANGED notWorkflow

\* generateReadme(): with metadata, the scaffold is generated anew and its
\* README.md is saved; wrangler.jsonc is not.
GenerateReadme ==
    /\ workflow.workflowMetadata.defined
    /\ LET scaffold == GenerateWorkflowScaffold(workflow.workflowMetadata)
       IN workflow' = [workflow EXCEPT !.templateDetailsCache = scaffold,
                                       !.readme = scaffold.readme]
    /\ UNCHANGED notWorkflow

\* executeGeneration starts: generation_started is broadcast.
StartGeneration ==
    /\ workflow.generation # "started"
    /\ workflow' = [workflow EXCEPT !.generation = "started"]
    /\ UNCHANGED notWorkflow

\* The configure_workflow_metadata tool, called by the assistant of a running
\* generation: agent.configureMetadata(metadata).
ToolConfigureMetadata(md) ==
    /\ workflow.generation = "started"
    /\ ConfigureMetadata(md)

\* generator.run returned: generation_completed is broadcast.
CompleteGeneration ==
    /\ workflow.generation = "started"
    /\ workflow' = [workflow EXCEPT !.generation = "completed"]
    /\ UNCHANGED notWorkflow

----------------------------------------------------------------------------
(* Plugin manager: register, unregister, executeHook *)

\* this.plugins.has(name), and this.plugins.delete(name) on the insertion order.
HasPlugin(registry, name) == \E i \in 1..Len(registry) : registry[i].name = name
DeletePlugin(registry, name) == SelectSeq(registry, LAMBDA x : x.name # name)

\* One awaited hook: whose, of which object, which hook.
Awaited(plugin, hookName) == [name |-> plugin.name, id |-> plugin.id, hook |-> hookName]

\* register without the check on the name: Map.set replaces the object under
\* the name where it stands, and onRegister of the new object is awaited.
RegisterReplacing(registry, plugin) ==
    LET set == IF HasPlugin(registry, plugin.name)
               THEN [i \in 1..Len(registry) |->
                        IF registry[i].name = plugin.name THEN plugin ELSE registry[i]]
               ELSE Append(registry, plugin)
    IN  IF plugin.onRegister = "throw"
        THEN [registry |-> DeletePlugin(set, plugin.name),
              awaited |-> <<Awaited(plugin, "onRegister")>>, threw |-> TRUE]
        ELSE [registry |-> set,
              awaited |-> IF plugin.onRegister = "none" THEN <<>>
                          ELSE <<Awaited(plugin, "onRegister")>>,
              threw |-> FALSE]

\* PluginManager.register: the registry it leaves, the hooks it awaited and
\* whether it rejected.
RegisterPlugin(registry, plugin) ==
    IF HasPlugin(registry, plugin.name)
    THEN [registry |-> registry, awaited |-> <<>>, threw |-> FALSE]
    ELSE LET set == Append(registry, plugin)
         IN  IF plugin.onRegister = "throw"
             THEN [registry |-> DeletePlugin(set, plugin.name),
                   awaited |-> <<Awaited(plugin, "onRegister")>>, threw |-> TRUE]
             ELSE [registry |-> set,
                   awaited |-> IF plugin.onRegister = "none" THEN <<>>
                               ELSE <<Awaited(plugin, "onRegister")>>,
                   threw |-> FALSE]

Register(plugin) ==
    LET out == RegisterPlugin(plugins.registry, plugin)
    IN  /\ plugins' = [registry |-> out.registry,
                       last |-> [op |-> "register", name |-> plugin.name, id |-> plugin.id,
                                 before |-> plugins.registry, awaited |-> out.awaited,
                                 errors |-> <<>>, threw |-> out.threw]]
        /\ UNCHANGED notPlugins

\* PluginManager.unregister.
UnregisterPlugin(registry, pluginName) ==
    IF ~HasPlugin(registry, pluginName)
    THEN [registry |-> registry, awaited |-> <<>>, threw |-> FALSE]
    ELSE LET plugin == CHOOSE x \in {registry[i] : i \in 1..Len(registry)} :
                           x.name = pluginName
         IN  IF plugin.onUnregister = "throw"
             THEN [registry |-> registry,
                   awaited |-> <<Awaited(plugin, "onUnregister")>>, threw |-> TRUE]
             ELSE [registry |-> DeletePlugin(registry, pluginName),
                   awaited |-> IF plugin.onUnregister = "none" THEN <<>>
                               ELSE <<Awaited(plugin, "onUnregister")>>,
                   threw |-> FALSE]

Unregister(pluginName) ==
    LET out == UnregisterPlugin(plugins.registry, pluginName)
    IN  /\ plugins' = [registry |-> out.registry,
                       last |-> [op |-> "unregister", name |-> pluginName, id |-> 0,
                                 before |-> plugins.registry, awaited |-> out.awaited,
                                 errors |-> <<>>, threw |-> out.threw]]
        /\ UNCHANGED notPlugins

\* The loop of executeHook that gives up at the first hook that throws.
RECURSIVE RunHooksUntilThrow(_, _, _)
RunHooksUntilThrow(registry, i, out) ==
    IF i > Len(registry) THEN out
    ELSE LET plugin == registry[i]
         IN  IF plugin.hook = "none" THEN RunHooksUntilThrow(registry, i + 1, out)
             ELSE IF plugin.hook = "throw"
                  THEN [out EXCEPT !.awaited = Append(@, Awaited(plugin, "hook")),
                                   !.errors = Append(@, plugin.name)]
                  ELSE RunHooksUntilThrow(registry, i + 1,
                           [out EXCEPT !.awaited = Append(@, Awaited(plugin, "hook"))])

\* The loop of executeHook over this.plugins.values(), from the i-th plugin
\* on: the hooks awaited and the errors collected.
RECURSIVE RunHooks(_, _, _)
RunHooks(registry, i, out) ==
    IF i > Len(registry) THEN out
    ELSE LET plugin == registry[i]
         IN  IF plugin.hook = "none" THEN RunHooks(registry, i + 1, out)
             ELSE RunHooks(registry, i + 1,
                      [out EXCEPT !.awaited = Append(@, Awaited(plugin, "hook")),
                                  !.errors = IF plugin.hook = "throw"
                                             THEN Append(@, plugin.name) ELSE @])

\* PluginManager.executeHook.
ExecuteHook ==
    LET out == RunHooks(plugins.registry, 1, [awaited |-> <<>>, errors |-> <<>>])
    IN  /\ plugins' = [plugins EXCEPT !.last =
                           [op |-> "executeHook", name |-> None, id |-> 0,
                            before |-> plugins.registry, awaited |-> out.awaited,
                            errors |-> out.errors, threw |-> FALSE]]
        /\ UNCHANGED notPlugins

----------------------------------------------------------------------------
(* Tool dispatch: executeToolWithDefinition *)

\* What the implementation of a tool does: "configure" is the implementation
\* of configure_workflow_metadata, the others stand for a tool that resolves
\* with a success object, resolves with {error}, or rejects.
ToolImplementations == {"configure", "returns", "returnsError", "throws"}

\* A tool definition: its implementation and whether it has the callbacks.
ToolDefs == [implementation: ToolImplementations, onStart: BOOLEAN, onComplete: BOOLEAN]

\* The arguments of a call: metadata, complete or with a property the
\* declared schema requires left out.
MissingProperties == {"none", "description", "params"}
ToolArgs == [md: {Metadata("n1", o, NoBindings) : o \in {x \in Objects : Len(x) <= 1}},
             missing: MissingProperties]

\* required: ['name', 'description', 'params'] of the declared parameters.
SchemaOk(args) == args.missing = "none"

\* The metadata object the arguments are.
ArgsMetadata(args) ==
    IF args.missing = "description" THEN [args.md EXCEPT !.description = None]
    ELSE args.md

\* toolDef.implementation(args): its result, whether it rejected, and whether
\* it called agent.configureMetadata. The implementation of
\* configure_workflow_metadata reads Object.keys(metadata.params) inside its
\* try and turns whatever is thrown into {error}.
Implementation(toolDef, args) ==
    IF toolDef.implementation = "configure"
    THEN IF args.missing = "params"
         THEN [result |-> "error", threw |-> FALSE, stores |-> FALSE]
         ELSE [result |-> "success", threw |-> FALSE, stores |-> TRUE]
    ELSE IF toolDef.implementation = "returns"
    THEN [result |-> "success", threw |-> FALSE, stores |-> FALSE]
    ELSE IF toolDef.implementation = "returnsError"
    THEN [result |-> "error", threw |-> FALSE, stores |-> FALSE]
    ELSE [result |-> None, threw |-> TRUE, stores |-> FALSE]

\* executeToolWithDefinition(toolDef, args): onStart, the awaited
\* implementation, onComplete, the result returned; a rejection of the
\* implementation is the rejection of the call.
ExecuteToolWithDefinition(toolDef, args) ==
    LET out == Implementation(toolDef, args)
        log == (IF toolDef.onStart THEN <<"onStart">> ELSE <<>>)
               \o <<"implementation">>
               \o (IF toolDef.onComplete /\ ~out.threw THEN <<"onComplete">> ELSE <<>>)
    IN  /\ out.stores => Len(workflow.calls) < MaxCalls
        /\ toolCall' = [tool |-> toolDef.implementation, log |-> log,
                        result |-> out.result, threw |-> out.threw,
                        schemaOk |-> SchemaOk(args)]
        /\ workflow' = IF out.stores THEN WithMetadata(workflow, ArgsMetadata(args))
                       ELSE workflow
        /\ UNCHANGED notTools

----------------------------------------------------------------------------
(* Broadcast to the connections of a session *)

MaxBroadcasts == 2
Events == {"e1", "e2"}

\* A WebSocket is accepted, or closed.
Attach(c) ==
    /\ \A i \in 1..Len(channels.attached) : channels.attached[i] # c
    /\ channels' = [channels EXCEPT !.attached = Append(@, c)]
    /\ UNCHANGED notChannels

Detach(c) ==
    /\ \E i \in 1..Len(channels.attached) : channels.attached[i] = c
    /\ channels' = [channels EXCEPT !.attached = SelectSeq(@, LAMBDA x : x # c)]
    /\ UNCHANGED notChannels

\* The loop over the connections with a send that lets the exception out:
\* the first failure ends the loop and is thrown to the broadcaster.
RECURSIVE SendUntilThrow(_, _, _, _)
SendUntilThrow(connections, out, event, failing) ==
    IF connections = <<>> THEN out
    ELSE IF Head(connections) \in failing THEN [out EXCEPT !.threw = TRUE]
    ELSE SendUntilThrow(Tail(connections),
             [out EXCEPT !.received[Head(connections)] = Append(@, event)],
             event, failing)

\* broadcastToConnections: sendToConnection for each connection in turn;
\* sendToConnection catches what JSON.stringify or connection.send throws.
RECURSIVE SendToConnections(_, _, _, _)
SendToConnections(connections, out, event, failing) ==
    IF connections = <<>> THEN out
    ELSE SendToConnections(Tail(connections),
             IF Head(connections) \in failing THEN out
             ELSE [out EXCEPT !.received[Head(connections)] = Append(@, event)],
             event, failing)

\* broadcast(type, data): failing are the connections whose send throws;
\* with data that cannot be serialized the send fails for every connection.
BroadcastToConnections(event, failing, serializable) ==
    LET fails == IF serializable THEN failing ELSE Conns
        out == SendToConnections(channels.attached,
                   [received |-> channels.received, threw |-> FALSE], event, fails)
    IN  /\ Len(channels.log) < MaxBroadcasts
        /\ channels' = [channels EXCEPT
               !.received = out.received,
               !.threw = out.threw,
               !.log = Append(@, [event |-> event,
                                  to |-> {channels.attached[i] :
                                             i \in 1..Len(channels.attached)} \ fails])]
        /\ UNCHANGED notChannels

----------------------------------------------------------------------------
(* Calls to the sandbox: readFiles, execCommands, fetchRuntimeErrors *)

\* The deployment manager created the sandbox instance of the session.
EnsureSandboxInstance ==
    /\ ~sandboxState.sandboxInstanceId
    /\ sandboxState' = [sandboxState EXCEPT !.sandboxInstanceId = TRUE]
    /\ UNCHANGED notSandbox

\* How the sandbox answers a call: {success: true}, {success: false}, or the
\* call rejects.
CallAnswers == {"ok", "fails", "throws"}

\* cmd.includes(needle), for a command given as its words joined by blanks.
Includes(cmd, needle) ==
    IF needle = " add "
    THEN \E i \in 2..(Len(cmd) - 1) : cmd[i] = "add"
    ELSE IF needle = "install"
    THEN \E i \in 1..Len(cmd) : cmd[i] \in {"install", "uninstall"}
    ELSE \E i \in 1..Len(cmd) : cmd[i] = needle

\* hasDependencyCommands of saveExecutedCommands.
HasDependencyCommands(commands) ==
    \E i \in 1..Len(commands) :
        \/ Includes(commands[i], "install")
        \/ Includes(commands[i], " add ")
        \/ Includes(commands[i], "remove")
        \/ Includes(commands[i], "uninstall")

\* validateAndCleanBootstrapCommands([...commandsHistory, ...commands]): the
\* history with the commands added, each once.
MergedCommands(history, commands) ==
    history \cup {commands[i] : i \in 1..Len(commands)}

\* syncPackageJsonFromSandbox: package.json is read from the sandbox; when
\* the read gives a file that differs from lastPackageJson it is stored, saved
\* and announced with file_generated; a failed read changes nothing.
SyncedPackageJson(lastPackageJson, read, packageJson) ==
    IF read = "ok" THEN packageJson ELSE lastPackageJson

\* readFiles(paths): without a sandbox instance or when getFiles fails, no
\* files and a warning in the log.
ReadFiles(answer) ==
    LET ran == sandboxState.sandboxInstanceId
    IN  /\ sandboxState' = [sandboxState EXCEPT !.last =
               [NoSandboxCall EXCEPT
                   !.op = "readFiles",
                   !.answer = IF ran THEN answer ELSE None,
                   !.threw = ran /\ answer = "throws",
                   !.returned = IF ~ran \/ answer = "fails" THEN "empty"
                                ELSE IF answer = "ok" THEN "files" ELSE None,
                   !.before = [commandsHistory |-> sandboxState.commandsHistory,
                               lastPackageJson |-> sandboxState.lastPackageJson]]]
        /\ UNCHANGED notSandbox

\* execCommands(commands, shouldSave): the sandbox's answer is returned as it
\* is; with shouldSave, saveExecutedCommands stores the commands and syncs
\* package.json when one of them alters dependencies.
ExecCommands(commands, shouldSave, answer, read, packageJson) ==
    LET ran == sandboxState.sandboxInstanceId /\ answer # "throws"
        saved == ran /\ shouldSave
        synced == saved /\ HasDependencyCommands(commands)
        package == IF synced
                   THEN SyncedPackageJson(sandboxState.lastPackageJson, read, packageJson)
                   ELSE sandboxState.lastPackageJson
    IN  /\ sandboxState' = [sandboxState EXCEPT
               !.commandsHistory = IF saved THEN MergedCommands(@, commands) ELSE @,
               !.lastPackageJson = package,
               !.last = [op |-> "execCommands",
                         answer |-> IF sandboxState.sandboxInstanceId THEN answer ELSE None,
                         threw |-> (sandboxState.sandboxInstanceId /\ answer = "throws"),
                         events |-> IF package # sandboxState.lastPackageJson
                                    THEN {"file_generated"} ELSE {},
                         synced |-> synced,
                         commands |-> commands,
                         shouldSave |-> shouldSave,
                         returned |-> IF ~sandboxState.sandboxInstanceId THEN "failure"
                                      ELSE IF answer = "ok" THEN "success"
                                      ELSE IF answer = "fails" THEN "failure" ELSE None,
                         before |-> [commandsHistory |-> sandboxState.commandsHistory,
                                     lastPackageJson |-> sandboxState.lastPackageJson]]]
        /\ UNCHANGED notSandbox

\* How a fetch of runtime errors goes: waitForPreview rejects, or it resolves
\* and deploymentManager.fetchRuntimeErrors throws, returns errors or none.
FetchOutcomes == {"wait_rejects", "throws", "errors", "empty"}

\* fetchRuntimeErrors(clear): waitForPreview is awaited before the try; the
\* catch around the fetch starts a redeploy that nobody awaits and returns no
\* errors; errors found are announced with runtime_error_found.
FetchRuntimeErrors(outcome) ==
    /\ outcome = "throws" => Len(sandboxDeploying) + Len(deployQueue) < MaxDeployCalls
    /\ IF outcome = "throws" THEN ManagerDeployToSandbox("runtime_errors")
       ELSE UNCHANGED <<sandboxDeploying, deployQueue>>
    /\ sandboxState' = [sandboxState EXCEPT !.last =
           [NoSandboxCall EXCEPT
               !.op = "fetchRuntimeErrors",
               !.answer = outcome,
               !.threw = (outcome = "wait_rejects"),
               !.events = IF outcome = "errors" THEN {"runtime_error_found"}
                          ELSE IF outcome = "throws" /\ sandboxDeploying = <<>>
                          THEN {"deployment_started"} ELSE {},
               !.returned = IF outcome = "wait_rejects" THEN None
                            ELSE IF outcome = "errors" THEN "errors" ELSE "empty",
               !.before = [commandsHistory |-> sandboxState.commandsHistory,
                           lastPackageJson |-> sandboxState.lastPackageJson]]]
    /\ UNCHANGED <<convVars, sessionState, stopAcked, prototypeInitialState, agents,
                   build, sent, lastStep, repos, workflow, plugins, toolCall, names,
                   channels, templateState, registering, exported>>

----------------------------------------------------------------------------
(* Specifications *)

InitConv ==
    /\ conversationMessages \in RehydratedLogs
    /\ full_conversations = NoRow
    /\ compact_conversations = NoRow
    /\ convReply = NoReply
    /\ convHist = NoHist
    /\ InitSessionOf("app")

NextConv ==
    \/ AddMessage
    \/ FrameClearConversation
    \/ FrameGetConversationState

SpecConv == InitConv /\ [][NextConv]_vars

Init ==
    /\ conversationMessages = <<>>
    /\ full_conversations = NoRow
    /\ compact_conversations = NoRow
    /\ convReply = NoReply
    /\ convHist = NoHist
    /\ InitSession

\* The frames that start and stop a generation.
GenerationFrame ==
    \E c \in Conns :
        \/ FrameGenerateAll(c)
        \/ FrameResumeGeneration(c)
        \/ FrameStopGeneration(c)

\* The frames that start another controller method, and the frames refused.
OtherFrame ==
    \E c \in Conns :
        \/ \E kind \in OpKinds : FrameOp(c, kind)
        \/ FrameMalformed(c)
        \/ FrameUnknownType(c)

\* The steps of a workflow generation (the only ones in "llm" or "tool").
WorkflowGeneration ==
    \E g \in GenIds :
        \/ WfCallGenerateFiles(g)
        \/ \E e \in FileEvents : WfFileEvent(g, e)
        \/ WfGenerateFilesReturns(g)
        \/ WfGenerateFilesAborted(g)
        \/ WfConfigureMetadata(g)
        \/ \E e \in InferenceOutcomes : WfInferenceEnds(g, e)

\* The steps of an app generation (the only ones in "phase").
AppGeneration ==
    \E g \in GenIds :
        \/ \E e \in PhaseEvents \cup FileEvents : AppEmits(g, e)
        \/ AppObservesAbort(g)
        \/ \E e \in {"ok", "Error"} : AppEnds(g, e)

DeepDebug ==
    \/ ExecuteDeepDebug
    \/ \E d \in DebugRuns : DebugFetched(d) \/ DebugSettles(d)

Settle == \E op \in Ops : OpResolves(op) \/ OpThrows(op)

\* Generation, cancellation and deep debug of one session.
Next ==
    \/ GenerationFrame
    \/ WorkflowGeneration
    \/ AppGeneration
    \/ DeepDebug

Spec == Init /\ [][Next]_vars

\* The control-frame handler of one session with the promises it starts.
NextFrames ==
    \/ GenerationFrame
    \/ OtherFrame
    \/ WorkflowGeneration
    \/ AppGeneration
    \/ Settle

SpecFrames == Init /\ [][NextFrames]_vars

\* The user_suggestion frames of one session with the promises they start.
NextSuggestion ==
    \/ \E c \in Conns, in \in Suggestions : FrameUserSuggestion(c, in)
    \/ Settle

SpecSuggestion == Init /\ [][NextSuggestion]_vars

\* The sandbox deploys of one session, from all the callers of deployToSandbox.
NextDeploy ==
    \/ \E c \in Conns : FramePreview(c)
    \/ ToolDeployPreview
    \/ FetchRuntimeErrorsFails
    \/ OnPreviewExpired
    \/ \E ok \in BOOLEAN : SandboxDeployEnds(ok)

SpecDeploy == Init /\ [][NextDeploy]_vars

\* The sessions of one process: construction, attachment and onStart.
InitDispatch ==
    /\ conversationMessages = <<>>
    /\ full_conversations = NoRow
    /\ compact_conversations = NoRow
    /\ convReply = NoReply
    /\ convHist = NoHist
    /\ InitAgentOf("app")
    /\ InitSandbox
    /\ prototypeInitialState = None
    /\ agents = [s \in SessionIds |-> NoAgent]
    /\ build \in Builds
    /\ InitExt

NextDispatch ==
    \/ \E s \in SessionIds, in \in Constructions : ConstructSuper(s, in)
    \/ \E s \in SessionIds : ConstructAttach(s)
    \/ \E s \in SessionIds, r \in StartIds : OnStart(s, r)
    \/ \E s \in SessionIds, r \in StartIds, ok \in BOOLEAN : StartSettles(s, r, ok)

SpecDispatch == InitDispatch /\ [][NextDispatch]_vars

\* The files and commits of the sessions of one process.
InitFiles == InitCore /\ InitParts

NextFiles ==
    \/ \E s \in SessionIds, id \in NanoIds, ok \in BOOLEAN : Initialize(s, id, ok)
    \/ \E s \in SessionIds, files \in SUBSET Paths, ok \in BOOLEAN : GenerateFiles(s, files, ok)
    \/ \E s \in SessionIds, ok \in BOOLEAN : SyncPackageJsonFromSandbox(s, ok)
    \/ \E s \in SessionIds, files \in SUBSET Paths : DeleteFiles(s, files)
    \/ \E s \in SessionIds, t \in SessionIds : CloneAgent(s, t)
    \/ \E s \in SessionIds, ok \in BOOLEAN : ExportGitObjects(s, ok)

SpecFiles == InitFiles /\ [][NextFiles]_vars

\* The configureMetadata calls of one workflow session.
InitMetadata == InitCore /\ InitParts

NextMetadata == \E md \in Metadatas : ConfigureMetadata(md)

SpecMetadata == InitMetadata /\ [][NextMetadata]_vars

\* The scaffold of a workflow session whose metadata declares resources.
InitScaffold ==
    /\ InitCore
    /\ InitRepos
    /\ InitPlugins
    /\ InitToolCall
    /\ InitNames
    /\ InitChannels
    /\ InitSandboxState
    /\ InitTemplateState
    /\ InitRegistering
    /\ InitExported
    /\ \E n \in MetadataNames, envVars \in {Undefined, Defined(<<Entry("a", 1)>>)},
          resources \in Resources :
          workflow = [NoWorkflow EXCEPT !.workflowMetadata =
                          Metadata(n, <<>>, Bindings(envVars, Undefined, Defined(resources)))]

NextScaffold ==
    \/ GetTemplateDetails
    \/ UpdateTemplateDetails

SpecScaffold == InitScaffold /\ [][NextScaffold]_vars

\* The generations of a workflow session with the metadata they configure.
NextWorkflowFiles ==
    \/ StartGeneration
    \/ \E md \in {x \in Metadatas : x.name = "n1"} : ToolConfigureMetadata(md)
    \/ GenerateReadme
    \/ CompleteGeneration

SpecWorkflowFiles == InitMetadata /\ [][NextWorkflowFiles]_vars

\* The plugin manager of one session.
InitPluginManager == InitCore /\ InitParts

NextPlugins ==
    \/ \E plugin \in Plugins : Register(plugin)
    \/ \E pluginName \in PluginNames : Unregister(pluginName)
    \/ ExecuteHook

SpecPlugins == InitPluginManager /\ [][NextPlugins]_vars

\* A session at rest: nothing generated, configured, registered or attached.
InitAtRest == InitCore /\ InitParts

\* The tool calls of one workflow session.
NextTools == \E toolDef \in ToolDefs, args \in ToolArgs : ExecuteToolWithDefinition(toolDef, args)

SpecTools == InitAtRest /\ [][NextTools]_vars

\* The project names of the sessions of one process.
NextNames ==
    \/ \E s \in SessionIds, id \in NanoIds : Initialize(s, id, TRUE)
    \/ \E s \in SessionIds, newName \in NameInputs, sandbox \in SandboxAnswers,
          database \in DatabaseAnswers : UpdateProjectName(s, newName, sandbox, database)
    \/ \E s \in SessionIds, t \in SessionIds : CloneAgent(s, t)

SpecNames == InitAtRest /\ [][NextNames]_vars

\* The connections of one session and the events broadcast to them.
NextChannels ==
    \/ \E c \in Conns : Attach(c)
    \/ \E c \in Conns : Detach(c)
    \/ \E event \in Events, failing \in SUBSET Conns, serializable \in BOOLEAN :
          BroadcastToConnections(event, failing, serializable)

SpecChannels == InitAtRest /\ [][NextChannels]_vars

\* The calls a session makes to its sandbox.
CommandLists == {<<c>> : c \in Commands} \cup {<<<<"ls">>, <<"bun", "install">>>>}

NextSandbox ==
    \/ EnsureSandboxInstance
    \/ \E answer \in CallAnswers : ReadFiles(answer)
    \/ \E commands \in CommandLists, shouldSave \in BOOLEAN, answer \in CallAnswers,
          read \in {"ok", "fails"}, packageJson \in PackageJsons :
          ExecCommands(commands, shouldSave, answer, read, packageJson)
    \/ \E outcome \in FetchOutcomes : FetchRuntimeErrors(outcome)

SpecSandbox == InitAtRest /\ [][NextSandbox]_vars

----------------------------------------------------------------------------
(* Claims on the conversation store *)

\* C6: a get_conversation_state handled right after a clear_conversation replies
\* with an empty running log.
C6_GetAfterClearRunningEmpty ==
    (convReply.sent /\ convReply.afterClear)
        => convReply.state.runningHistory = <<>>

\* C7: clear_conversation leaves the full log returned by getConversationState
\* as it was just before the clear.
C7_ClearKeepsFullLog ==
    convHist.op = "clear"
        => GetConversationState.fullHistory = convHist.before.fullHistory

\* C8: addConversationMessage(m) called a second time in a row (the first call
\* persisted, or both calls met the same persistence outcome) leaves the
\* persisted rows, hence the running and the full log, as the first call left them.
C8_AddIdempotent ==
    (convHist.op = "add" /\ convHist.again)
        => /\ <<compact_conversations, full_conversations>> = convHist.rows
           /\ GetConversationState = convHist.before

C8_Witness ==
    /\ convHist.op = "add" /\ convHist.again /\ convHist.outcome = "ok"
    /\ Len(GetConversationState.fullHistory) >= 2

\* What a log is after message m was added to it: m in the place of the entry
\* with its conversationId, or at the end when there is none.
AddedTo(log, m) ==
    IF \E i \in 1..Len(log) : log[i].conversationId = m.conversationId
    THEN [i \in 1..Len(log) |->
            IF log[i].conversationId = m.conversationId THEN m ELSE log[i]]
    ELSE log \o <<m>>

\* C9: every conversationId occurs at most once in the persisted running and
\* full logs and in the logs getConversationState returns; a persisted add of
\* an id already present replaces the entry where it stands.
C9_UniqueConversationIds ==
    /\ NoDuplicateIds(ParseRow(compact_conversations))
    /\ NoDuplicateIds(ParseRow(full_conversations))
    /\ NoDuplicateIds(GetConversationState.runningHistory)
    /\ NoDuplicateIds(GetConversationState.fullHistory)
    /\ (convHist.op = "add" /\ convHist.outcome = "ok")
         => /\ ParseRow(compact_conversations)
                 = AddedTo(convHist.before.runningHistory, convHist.msg)
            /\ ParseRow(full_conversations)
                 = AddedTo(convHist.before.fullHistory, convHist.msg)

C9_Witness ==
    /\ convHist.op = "add" /\ convHist.outcome = "ok"
    /\ Len(convHist.before.runningHistory) = 2
    /\ convHist.before.runningHistory[1].conversationId = convHist.msg.conversationId
    /\ convHist.before.runningHistory[1].content # convHist.msg.content
    /\ Len(ParseRow(compact_conversations)) = 2

----------------------------------------------------------------------------
(* Claims on generation, cancellation and deep debug *)

EmittedTypes == {ev.type : ev \in sent}

\* C1: once stop_generation has been answered with generation_stopped, no
\* phase_* and no file_* event is emitted until a generate_all or
\* resume_generation frame is received.
C1_NoPhaseOrFileEventAfterStop ==
    stopAcked => EmittedTypes \cap (PhaseEvents \cup FileEvents) = {}

\* C2: at most one generation is in flight, and a generate_all or
\* resume_generation frame received while one is in flight starts none and
\* causes no generation_started.
C2_AtMostOneGeneration ==
    /\ Cardinality(InFlightGens) <= 1
    /\ (generationPromise # 0) <=> (InFlightGens = {generationPromise})
    /\ (lastStep.op \in {"generate_all", "resume_generation"}
            /\ lastStep.wasGenerating)
         => "generation_started" \notin EmittedTypes

C2_Witness ==
    /\ lastStep.op = "resume_generation"
    /\ lastStep.wasGenerating
    /\ generationPromise # 0
    /\ gens[generationPromise].via = "generate_all"
    /\ gens[generationPromise].conn # lastStep.conn

\* C3: at most one deep-debug run is in flight: a call of executeDeepDebug made
\* while a run is in flight starts no second fetch and no second debugger loop.
C3_AtMostOneDeepDebugRun == BagCardinality(debugRuns) <= 1

\* C4: the signal handed to a deep-debug run in flight is never aborted by
\* stop_generation.
C4_StopNeverAbortsDebugSignal ==
    \A d \in InFlightRuns : d.signal \notin abortedSignals

C10_EveryExceptionReported ==
    lastStep.threw => SendError(lastStep.conn) \in sent

----------------------------------------------------------------------------
(* Claims on the control-frame handler *)

\* C11: a frame that is not valid JSON or whose type is unknown yields one
\* error event, on the sending connection only, starts no controller
\* operation and leaves the session state as it was.
C11_InvalidFrameOnlyErrors ==
    [][lastStep'.op \in {"malformed", "unknown_type"}
          => /\ sent' = {[type |-> "error", to |-> lastStep'.conn]}
             /\ UNCHANGED <<sessionState, convVars>>]_vars

C11_Witness ==
    /\ lastStep.op \in {"malformed", "unknown_type"}
    /\ generationPromise # 0
    /\ pendingOps # {}
    /\ gens[generationPromise].conn # lastStep.conn

\* C12: a user_suggestion on an app session without a message, with more than
\* MAX_IMAGES_PER_MESSAGE images or with an image over MAX_IMAGE_SIZE_BYTES is
\* answered with an error on its connection, starts no handleUserInput and
\* changes no state; any other one, also with exactly MAX_IMAGES_PER_MESSAGE
\* images of exactly MAX_IMAGE_SIZE_BYTES, is passed to the controller.
C12_SuggestionLimits ==
    [][(lastStep'.op = "user_suggestion" /\ projectType = "app")
          => LET in == lastStep'.input
                 c  == lastStep'.conn
             IN  IF \/ ~in.message
                    \/ Len(in.images) >= MAX_IMAGES_PER_MESSAGE + 1
                    \/ \E i \in 1..Len(in.images) :
                          in.images[i] >= MAX_IMAGE_SIZE_BYTES + 1
                 THEN /\ sent' = {[type |-> "error", to |-> c]}
                      /\ UNCHANGED <<sessionState, convVars>>
                 ELSE /\ [kind |-> "user_suggestion", conn |-> c] \in pendingOps'
                      /\ "error" \notin {ev.type : ev \in sent'}]_vars

C12_Witness ==
    /\ lastStep.op = "user_suggestion"
    /\ projectType = "app"
    /\ Len(lastStep.input.images) = MAX_IMAGES_PER_MESSAGE
    /\ \A i \in 1..Len(lastStep.input.images) :
          lastStep.input.images[i] = MAX_IMAGE_SIZE_BYTES
    /\ [kind |-> "user_suggestion", conn |-> lastStep.conn] \in pendingOps

\* C13: on a workflow session capture_screenshot, resume_generation,
\* user_suggestion and get_model_configs are answered with an error on the
\* sending connection; no controller method is started, shouldBeGenerating
\* keeps its value and no generation starts.
C13_WorkflowRejectsAppFrames ==
    [][(projectType = "workflow"
          /\ lastStep'.op \in {"capture_screenshot", "resume_generation",
                               "user_suggestion", "get_model_configs"})
          => /\ sent' = {[type |-> "error", to |-> lastStep'.conn]}
             /\ UNCHANGED <<sessionState, convVars>>]_vars

C13_Witness ==
    /\ projectType = "workflow"
    /\ lastStep.op = "capture_screenshot"
    /\ generationPromise # 0
    /\ sent = {[type |-> "error", to |-> lastStep.conn]}

\* C14: a generate_all frame leaves shouldBeGenerating set, and the flag the
\* frame set is not cleared when the generation it started fails with an
\* exception or when generateAllFiles returns without generating.
C14_FlagKeptUnlessCompleted ==
    [][/\ lastStep'.op = "generate_all" => shouldBeGenerating'
       /\ (lastStep'.op = "generation_end" /\ lastStep'.threw)
            => shouldBeGenerating' = shouldBeGenerating]_vars

\* C15: a stop_generation frame is answered with one generation_stopped on the
\* sending connection, with or without a current token; the current token, if
\* any, is aborted and discarded; shouldBeGenerating is cleared on an app
\* session and keeps its value on a workflow session.
C15_StopGeneration ==
    [][lastStep'.op = "stop_generation"
          => /\ sent' = {[type |-> "generation_stopped", to |-> lastStep'.conn]}
             /\ currentAbortController' = 0
             /\ abortedSignals' = abortedSignals \cup
                    (IF currentAbortController # 0
                     THEN {currentAbortController} ELSE {})
             /\ shouldBeGenerating' =
                    (projectType = "workflow" /\ shouldBeGenerating)]_vars

C15_Witness ==
    /\ lastStep.op = "stop_generation"
    /\ projectType = "workflow"
    /\ shouldBeGenerating
    /\ abortedSignals # {}
    /\ currentAbortController = 0
    /\ stopAcked

\* C16: on a workflow session a deploy that finds no Cloudflare credentials
\* broadcasts cloudflare_deployment_error and leaves deploymentStatus 'failed'
\* with deploymentError set.
C16_MissingCredentialsReported ==
    (lastStep.op = "deploy_throws" /\ projectType = "workflow"
        /\ deployment.error = "no_credentials")
        => /\ "cloudflare_deployment_error" \in {ev.type : ev \in sent}
           /\ deployment.status = "failed"

----------------------------------------------------------------------------
(* Claims on sandbox deploys and on the dispatcher *)

\* C17: at most one sandbox deploy is in flight per session: the
\* deployToSandbox calls of the preview frame, the deploy_preview tool, the
\* redeploy after a failed runtime-error fetch and the preview-expired
\* callback are queued and never overlap.
C17_OneSandboxDeployInFlight == Len(sandboxDeploying) <= 1

\* A deploy executes while calls of two other origins wait behind it.
C17_Witness ==
    /\ Len(sandboxDeploying) = 1
    /\ Len(deployQueue) >= 2
    /\ Cardinality({sandboxDeploying[1]}
                   \cup {deployQueue[i] : i \in 1..Len(deployQueue)}) >= 3
    /\ lastStep.op \in {"runtime_errors", "preview_expired"}

\* The controller a session must be driven by: the one of the persisted type
\* when rehydrating, else the one of the props, the app controller without.
MatchingController(a) ==
    IF a.persisted # None THEN a.persisted
    ELSE IF a.props # None THEN a.props
    ELSE "app"

C19_SessionsIsolated ==
    [][\A s \in SessionIds :
          agents'[s] # agents[s]
             => /\ \A t \in SessionIds \ {s} : agents'[t] = agents[t]
                /\ prototypeInitialState' = prototypeInitialState]_vars

\* How often the controller's onStart was invoked with the props of call r.
StartsOf(a, r) ==
    Cardinality({i \in 1..Len(a.controllerStarts) : a.controllerStarts[i] = r})

----------------------------------------------------------------------------
(* Claims on files, metadata, plugins, tools and channels *)

\* C21: in every observable state every path of a session's generatedFilesMap
\* is contained in a commit of that session's store, also after initialize, a
\* package.json sync, deleteFiles and for a session created by cloneAgent.
C21_FilesAreCommitted ==
    \A s \in SessionIds :
        repos[s].exists => repos[s].generatedFilesMap \subseteq repos[s].committed

\* The maps of a metadata, by name; a map that is not declared has no key.
MapNames == {"params", "envVars", "secrets", "resources"}
MapOf(md, map) ==
    IF map = "params" THEN md.params ELSE OrEmpty(md.bindings[map])

\* The calls declaring key k in a map.
Declaring(map, k) ==
    {i \in DOMAIN workflow.calls : k \in ObjKeys(MapOf(workflow.calls[i], map))}
LastOf(S) == CHOOSE x \in S : \A y \in S : y <= x

\* C22: after any sequence of configureMetadata calls each map of the stored
\* metadata holds exactly the keys declared by some call, each with the value
\* of the latest call declaring it, and name and description are those of
\* the latest call; a call omitting a key or the bindings removes nothing.
C22_MetadataMerged ==
    workflow.calls # <<>> =>
        LET stored == workflow.workflowMetadata
            last == workflow.calls[Len(workflow.calls)]
        IN /\ stored.name = last.name
           /\ stored.description = last.description
           /\ \A map \in MapNames :
                 /\ ObjKeys(MapOf(stored, map))
                        = UNION {ObjKeys(MapOf(workflow.calls[i], map)) :
                                     i \in DOMAIN workflow.calls}
                 /\ \A k \in ObjKeys(MapOf(stored, map)) :
                        ObjGet(MapOf(stored, map), k)
                            = ObjGet(MapOf(workflow.calls[LastOf(Declaring(map, k))], map), k)

\* Two calls: the second overwrites key a of a map, omits key b, and a call
\* without bindings follows bindings.
C22_Witness ==
    /\ Len(workflow.calls) >= 2
    /\ \E map \in MapNames :
          LET first == MapOf(workflow.calls[1], map)
              second == MapOf(workflow.calls[2], map)
          IN /\ ObjKeys(first) = {"a", "b"}
             /\ ObjKeys(second) = {"a"}
             /\ ObjGet(first, "a") # ObjGet(second, "a")
             /\ ObjKeys(MapOf(workflow.workflowMetadata, map)) = {"a", "b"}

\* The binding names of the section of wrangler.jsonc dedicated to a type.
SectionOf(w, type) ==
    LET Names(section) == {section[i] : i \in DOMAIN section}
    IN IF type = "kv" THEN Names(w.kv_namespaces)
       ELSE IF type = "r2" THEN Names(w.r2_buckets)
       ELSE IF type = "d1" THEN Names(w.d1_databases)
       ELSE IF type = "queue" THEN Names(w.producers)
       ELSE IF w.ai = None THEN {} ELSE {w.ai}

\* C24: for every resource binding of the metadata the generated
\* wrangler.jsonc has an entry with its name in the section of its type and
\* in no other section, for any number of resources of each type.
C24_ResourcesInTheirSections ==
    workflow.templateDetailsCache.defined =>
        LET resources == OrEmpty(workflow.workflowMetadata.bindings.resources)
            w == workflow.templateDetailsCache.wrangler
        IN \A i \in DOMAIN resources, type \in ResourceTypes :
               resources[i].key \in SectionOf(w, type) <=> type = resources[i].value

\* A configureMetadata call declared a binding.
DeclaredBindings ==
    \E i \in DOMAIN workflow.calls, map \in {"envVars", "secrets", "resources"} :
        MapOf(workflow.calls[i], map) # <<>>

\* C23: when a workflow generation whose configure_workflow_metadata calls
\* declared bindings has completed, the wrangler.jsonc and the README.md of
\* generatedFilesMap are those generated from the merged metadata.
C23_FilesRegeneratedOnCompletion ==
    (workflow.generation = "completed" /\ DeclaredBindings)
        => /\ workflow.wrangler = WranglerConfig(workflow.workflowMetadata)
           /\ workflow.readme = workflow.workflowMetadata

\* The plugins of a registry that define the hook, as awaited calls in the
\* order of their registration.
RECURSIVE DefiningHook(_)
DefiningHook(registry) ==
    IF registry = <<>> THEN <<>>
    ELSE IF Head(registry).hook = "none" THEN DefiningHook(Tail(registry))
         ELSE <<Awaited(Head(registry), "hook")>> \o DefiningHook(Tail(registry))

\* C25: executeHook awaits the hook of every registered plugin that defines
\* it exactly once, in registration order, also after the hook of an earlier
\* plugin threw, and does not throw itself.
C25_HooksAwaitedInOrder ==
    plugins.last.op = "executeHook"
        => /\ plugins.last.awaited = DefiningHook(plugins.last.before)
           /\ ~plugins.last.threw
           /\ plugins.registry = plugins.last.before

\* executeHook ran over two plugins, the first of which threw.
C25_Witness ==
    /\ plugins.last.op = "executeHook"
    /\ Len(plugins.last.before) = 2
    /\ plugins.last.before[1].hook = "throw"
    /\ plugins.last.before[2].hook # "none"
    /\ Len(plugins.last.awaited) = 2

\* C26: no call of the plugin manager rejects because a plugin's hook threw,
\* onRegister and onUnregister included, and the plugin whose hook threw stays
\* registered: after register its name is in the registry, and executeHook
\* removes nothing.
C26_HookFailuresContained ==
    /\ ~plugins.last.threw
    /\ plugins.last.op = "register" => HasPlugin(plugins.registry, plugins.last.name)
    /\ plugins.last.op = "executeHook" => Len(plugins.registry) = Len(plugins.last.before)

\* The object the registry holds under a name.
Registered(registry, name) ==
    CHOOSE x \in {registry[i] : i \in 1..Len(registry)} : x.name = name

\* C27: register of a plugin whose name is already registered leaves the
\* registry as it was, the object first registered under the name and the
\* order included, awaits no onRegister and does not reject.
C27_DuplicateRegisterIsNoOp ==
    (plugins.last.op = "register" /\ HasPlugin(plugins.last.before, plugins.last.name))
        => /\ plugins.registry = plugins.last.before
           /\ plugins.last.awaited = <<>>
           /\ ~plugins.last.threw

\* A second object was registered under the name of the first of two
\* registered plugins.
C27_Witness ==
    /\ plugins.last.op = "register"
    /\ Len(plugins.last.before) = 2
    /\ plugins.last.before[1].name = plugins.last.name
    /\ plugins.last.before[1].id # plugins.last.id

\* C28: a tool call whose arguments fail the declared schema returns {error}
\* and the implementation is not invoked; with valid arguments onStart, the
\* implementation and onComplete run in that order; the call returns a
\* success object or {error} and never throws.
C28_ToolDispatchContract ==
    toolCall.tool # None
        => /\ ~toolCall.threw
           /\ toolCall.result \in {"success", "error"}
           /\ ~toolCall.schemaOk
                  => (toolCall.result = "error"
                      /\ \A i \in 1..Len(toolCall.log) : toolCall.log[i] # "implementation")
           /\ toolCall.schemaOk
                  => \E i \in 1..Len(toolCall.log) :
                         /\ toolCall.log[i] = "implementation"
                         /\ \A j \in 1..(i - 1) : toolCall.log[j] = "onStart"
                         /\ \A j \in (i + 1)..Len(toolCall.log) : toolCall.log[j] = "onComplete"

RECURSIVE Due(_, _)
Due(log, c) ==
    IF log = <<>> THEN <<>>
    ELSE (IF c \in Head(log).to THEN <<Head(log).event>> ELSE <<>>) \o Due(Tail(log), c)

\* C30: every attached connection whose send succeeds receives each event
\* broadcast, in the order of the broadcasts, whichever other connections
\* fail, and no broadcast throws.
C30_BroadcastReachesTheOthers ==
    /\ ~channels.threw
    /\ \A c \in Conns : channels.received[c] = Due(channels.log, c)

\* Two events were broadcast to two connections; the send to the first
\* connection failed for the first event, and the second connection received
\* both.
C30_Witness ==
    /\ Len(channels.log) = 2
    /\ Len(channels.attached) = 2
    /\ channels.attached[1] \notin channels.log[1].to
    /\ channels.received[channels.attached[2]] = <<"e1", "e2">>
    /\ channels.received[channels.attached[1]] = <<"e2">>

----------------------------------------------------------------------------
(* The scaffold cache of a workflow session *)

\* generateWorkflowScaffold({workflowName, workflowClassName, workflowCode,
\* metadata}): the name of package.json and wrangler.jsonc, the class of the
\* workflow binding, src/index.ts from the code or as a stub of the class,
\* the binding sections, the README.
WorkflowScaffold(workflowName, workflowClassName, workflowCode, metadata) ==
    [defined |-> TRUE, name |-> workflowName, class_name |-> workflowClassName,
     indexTs |-> IF workflowCode.present
                 THEN [stub |-> FALSE, body |-> workflowCode.text]
                 ELSE [stub |-> TRUE, body |-> workflowClassName],
     wrangler |-> WranglerConfig(metadata), readme |-> metadata]

\* The scaffold generated from the state t of a workflow session.
ScaffoldOf(t) ==
    WorkflowScaffold(t.projectName, GetWorkflowClassName(t.indexTs),
                     GetWorkflowCode(t.indexTs), t.workflowMetadata)

\* getTemplateDetails: the cache, filled from the state when it is empty.
TemplateDetails(t) ==
    IF t.templateDetailsCache.defined THEN t.templateDetailsCache ELSE ScaffoldOf(t)

\* A call of getTemplateDetails() and what it returned.
CallGetTemplateDetails ==
    /\ templateState' = [templateState EXCEPT
                            !.templateDetailsCache = TemplateDetails(templateState),
                            !.returned = TemplateDetails(templateState)]
    /\ UNCHANGED notTemplate

\* The metadata the calls of the model configure.
ScaffoldMetadatas ==
    {Metadata("n1", <<Entry("a", 1)>>, NoBindings),
     Metadata("n1", <<>>, Bindings(Defined(<<Entry("a", 1)>>), Undefined, Undefined))}

\* configureMetadata on the session: metadata merged and stored, cache dropped.
CallConfigureMetadata(md) ==
    /\ templateState' = [templateState EXCEPT
                            !.workflowMetadata =
                                IF @.defined THEN MergeMetadata(@, md) ELSE md,
                            !.templateDetailsCache = NoTemplateDetails,
                            !.returned = NoTemplateDetails]
    /\ UNCHANGED notTemplate

\* generateFiles: getOperationOptions() calls getTemplateDetails(), the
\* operation generates the files, saveGeneratedFiles stores them; changed is
\* whether src/index.ts is among them.
CallGenerateFiles(changed, code) ==
    /\ templateState' = [templateState EXCEPT
                            !.templateDetailsCache = TemplateDetails(templateState),
                            !.indexTs = IF changed THEN code ELSE @,
                            !.returned = NoTemplateDetails]
    /\ UNCHANGED notTemplate

\* updateProjectName with a valid name: state.projectName is set.
CallUpdateProjectName(newName) ==
    /\ templateState' = [templateState EXCEPT
                            !.projectName = newName,
                            !.returned = NoTemplateDetails]
    /\ UNCHANGED notTemplate

\* generateReadme: nothing without metadata; else updateTemplateDetails()
\* generates the scaffold anew (README.md is then saved).
CallGenerateReadme ==
    /\ templateState' = [templateState EXCEPT
                            !.templateDetailsCache =
                                IF templateState.workflowMetadata.defined
                                THEN ScaffoldOf(templateState) ELSE @,
                            !.returned = NoTemplateDetails]
    /\ UNCHANGED notTemplate

NextTemplate ==
    \/ CallGetTemplateDetails
    \/ \E md \in ScaffoldMetadatas : CallConfigureMetadata(md)
    \/ \E changed \in BOOLEAN, code \in Codes : CallGenerateFiles(changed, code)
    \/ \E newName \in ProjectNames : CallUpdateProjectName(newName)
    \/ CallGenerateReadme

SpecTemplate == InitAtRest /\ [][NextTemplate]_vars

----------------------------------------------------------------------------
(* Plugin manager: a register call around its await *)

\* PluginManager.register up to its await: the name is free, the plugin is set
\* in the map, onRegister is called and not yet settled.
RegisterBegins(plugin) ==
    /\ ~HasPlugin(plugins.registry, plugin.name)
    /\ plugins' = [registry |-> Append(plugins.registry, plugin),
                   last |-> [op |-> "register_begins", name |-> plugin.name,
                             id |-> plugin.id, before |-> plugins.registry,
                             awaited |-> <<>>, errors |-> <<>>, threw |-> FALSE]]
    /\ registering' = registering \cup {plugin.name}
    /\ UNCHANGED notRegistration

\* PluginManager.register after its await: onRegister resolved, or it rejected
\* and the catch deletes the name and rethrows.
RegisterSettles(pluginName) ==
    /\ pluginName \in registering
    /\ LET plugin == CHOOSE x \in {plugins.registry[i] : i \in 1..Len(plugins.registry)} :
                         x.name = pluginName
       IN  plugins' = [registry |-> IF plugin.onRegister = "throw"
                                    THEN DeletePlugin(plugins.registry, pluginName)
                                    ELSE plugins.registry,
                       last |-> [op |-> "register", name |-> pluginName,
                                 id |-> plugin.id, before |-> plugins.registry,
                                 awaited |-> <<Awaited(plugin, "onRegister")>>,
                                 errors |-> <<>>,
                                 threw |-> plugin.onRegister = "throw"]]
    /\ registering' = registering \ {pluginName}
    /\ UNCHANGED notRegistration

\* The plugin manager with the register calls that other calls overlap.
NextRegistration ==
    \/ \E plugin \in Plugins : RegisterBegins(plugin)
    \/ \E pluginName \in PluginNames : RegisterSettles(pluginName)
    \/ ExecuteHook

SpecRegistration == InitAtRest /\ [][NextRegistration]_vars

----------------------------------------------------------------------------
(* Export of the git objects *)

\* this.git.fs.exportGitObjects(): the objects of the store, none before the
\* first commit; then the commit and, for every committed path, its blob.
GitObjects(r) == IF r.head THEN {"commit"} \cup r.committed ELSE {}

\* exportGitObjects(): the objects are exported, then gitInit() runs, then
\* the result is built from the objects exported; head is whether the store
\* has a commit when the call returns.
CallExportGitObjects(s, ok) ==
    /\ repos[s].exists
    /\ repos' = [repos EXCEPT ![s] = GitInit(repos[s], ok)]
    /\ exported' = [session |-> s,
                    gitObjects |-> GitObjects(repos[s]),
                    hasCommits |-> GitObjects(repos[s]) # {},
                    head |-> GitInit(repos[s], ok).head]
    /\ UNCHANGED notExport

NextExport ==
    \/ \E s \in SessionIds, id \in NanoIds, ok \in BOOLEAN : Initialize(s, id, ok)
    \/ \E s \in SessionIds, files \in SUBSET Paths, ok \in BOOLEAN : GenerateFiles(s, files, ok)
    \/ \E s \in SessionIds, t \in SessionIds : CloneAgent(s, t)
    \/ \E s \in SessionIds, ok \in BOOLEAN : CallExportGitObjects(s, ok)

SpecExport == InitAtRest /\ [][NextExport]_vars

----------------------------------------------------------------------------
(* Session: runs that fail before their first suspension *)

\* executeDeepDebug when getOperationOptions() throws: the async function runs
\* its try, catch and finally before it returns (finally: deepDebugPromise =
\* null), and the caller then stores the settled promise.
ExecuteDeepDebugFailsAtOnce ==
    /\ deepDebugPromise' = TRUE
    /\ sent' = {}
    /\ lastStep' = [Step("deep_debug", None) EXCEPT !.threw = TRUE]
    /\ UNCHANGED <<convVars, extVars, hostVars, deployment, projectType, shouldBeGenerating, generationPromise, gens,
                   ctlVars, workflowMetadata, debugRuns, pendingOps, stopAcked>>

\* handleWebSocketMessage, GENERATE_ALL, when executeGeneration throws before
\* generator.run is awaited: generation_started and the error are broadcast,
\* finally clears the handle and the controller, generateAllFiles then stores
\* the rejected promise, and the handler's catch and finally run on it.
FrameGenerateAllFailsAtOnce(c) ==
    /\ projectType = "workflow"
    /\ ~workflowMetadata
    /\ ~IsCodeGenerating
    /\ UnusedGens # {}
    /\ generationPromise' = FirstOf(UnusedGens)
    /\ ClearAbortController
    /\ sent' = {Broadcast("generation_started"), Broadcast("error"), SendError(c)}
    /\ shouldBeGenerating' = TRUE
    /\ lastStep' = [Step("generate_all", c) EXCEPT
                       !.threw = TRUE, !.wasGenerating = (InFlightGens # {}),
                       !.afterStop = stopAcked]
    /\ stopAcked' = FALSE
    /\ UNCHANGED <<convVars, extVars, hostVars, deployment, projectType, gens, workflowMetadata, deepDebugPromise,
                   debugRuns, pendingOps>>

FailsAtOnce ==
    \/ ExecuteDeepDebugFailsAtOnce
    \/ \E c \in Conns : FrameGenerateAllFailsAtOnce(c)

\* Generation, cancellation and deep debug of one session, with the runs that
\* fail before their first await.
NextHandles ==
    \/ GenerationFrame
    \/ WorkflowGeneration
    \/ AppGeneration
    \/ DeepDebug
    \/ FailsAtOnce

SpecHandles == Init /\ [][NextHandles]_vars

----------------------------------------------------------------------------
(* Claims on cancellation tokens, sandbox failures, handles and caches *)

\* C31: the token a step leaves installed is not aborted; a token is created
\* only when there is no current one or the current one is aborted, and is the
\* one installed; while the current token is live, a step that leaves a token
\* installed leaves that same token; with no token installed, a step (a
\* cancelCurrentInference among them) aborts nothing.
C31_TokenNeverAborted ==
    [][/\ currentAbortController' # 0 => currentAbortController' \notin abortedSignals'
       /\ controllersCreated' # controllersCreated
              => (~ReusesController /\ currentAbortController' = controllersCreated')
       /\ (ReusesController /\ currentAbortController' # 0)
              => currentAbortController' = currentAbortController
       /\ currentAbortController = 0 => abortedSignals' = abortedSignals]_vars

\* A second token was installed after the first was cancelled.
C31_Witness ==
    /\ controllersCreated = 2
    /\ currentAbortController = 2
    /\ abortedSignals = {1}

\* C32: when the sandbox answers a readFiles or execCommands call with
\* {success: false}, an error event is sent to the clients and commandsHistory
\* and the saved package.json are what they were before the call.
C32_SandboxFailureLeavesState ==
    (sandboxState.last.op \in {"readFiles", "execCommands"}
         /\ sandboxState.last.answer = "fails")
        => /\ "error" \in sandboxState.last.events
           /\ sandboxState.commandsHistory = sandboxState.last.before.commandsHistory
           /\ sandboxState.lastPackageJson = sandboxState.last.before.lastPackageJson

\* C33: a fetchRuntimeErrors call whose fetch path fails, the wait for the
\* preview included, throws nothing, sends no error event and returns no
\* errors.
C33_FetchFailureIsSilent ==
    (sandboxState.last.op = "fetchRuntimeErrors"
         /\ sandboxState.last.answer \in {"wait_rejects", "throws"})
        => /\ ~sandboxState.last.threw
           /\ "error" \notin sandboxState.last.events
           /\ sandboxState.last.returned = "empty"

\* C34: an execCommands call whose commands ran syncs package.json from the
\* sandbox exactly when one of the commands alters dependencies, whatever
\* shouldSave is.
C34_DependencyCommandsSync ==
    (sandboxState.last.op = "execCommands"
         /\ sandboxState.last.answer \in {"ok", "fails"})
        => (sandboxState.last.synced <=> HasDependencyCommands(sandboxState.last.commands))

\* C35: whenever no generation and no deep-debug run is in flight any more,
\* whether the last one returned, threw, or failed before its first await, the
\* handle is clear: isCodeGenerating() is true only while a generation is in
\* flight and isDeepDebugging() only while a deep-debug run is.
C35_HandleClearedWhenSettled ==
    /\ IsCodeGenerating => InFlightGens # {}
    /\ IsDeepDebugging => InFlightRuns # {}

\* A generate_all frame that arrived after an acknowledged stop_generation and
\* for which no generation was started.
SkippedAfterStop ==
    /\ lastStep.op = "generate_all"
    /\ lastStep.afterStop
    /\ Broadcast("generation_started") \notin sent

\* C36: a generate_all frame received after an acknowledged stop_generation is
\* not dropped: when it was skipped because the cancelled generation was still
\* unwinding, the next step does not leave the session with no generation and
\* shouldBeGenerating false.
C36_GenerateAllAfterStopNotDropped ==
    [][SkippedAfterStop => (IsCodeGenerating' \/ shouldBeGenerating')]_vars

\* C37: every conversationId of the persisted running (compact) log is in the
\* persisted full log, after any addConversationMessage calls, those whose
\* second write failed included.
C37_CompactIdsInFull ==
    Ids(ParseRow(compact_conversations)) \subseteq Ids(ParseRow(full_conversations))

\* C38: on a workflow session, what getTemplateDetails() returns is the
\* scaffold generated from the current projectName, the current src/index.ts
\* and the current workflowMetadata, after any configureMetadata,
\* generateFiles, updateProjectName and generateReadme calls.
C38_TemplateNeverStale ==
    templateState.returned.defined => templateState.returned = ScaffoldOf(templateState)

\* C39: an executeHook invokes no plugin whose onRegister has not completed:
\* none of the hooks it awaited is of a plugin a register call is still
\* awaiting, which covers the plugins whose onRegister then fails.
C39_NoHookBeforeRegistered ==
    plugins.last.op = "executeHook"
        => \A i \in DOMAIN plugins.last.awaited :
               plugins.last.awaited[i].name \notin registering

\* C40: when the store of the session holds a commit at the moment
\* exportGitObjects returns, the initial commit of its own gitInit call
\* included, the call returns hasCommits = true and a non-empty object list.
C40_ExportSeesTheCommits ==
    (exported.session # None /\ exported.head)
        => (exported.hasCommits /\ exported.gitObjects # {})

============================================================================
